---- MODULE Spec2Model ----
(***************************************************************************)
(* Model of the gccxml-format dump of CastXML, src/src/Output.cxx:         *)
(* the node registries (DeclNodes, TypeNodes), the file registry, the two  *)
(* traversal queues and the two-phase drain of                             *)
(* ASTVisitor::HandleTranslationUnit.                                      *)
(*                                                                         *)
(* The Clang AST the visitor walks is an input.  It is the translation     *)
(* unit                                                                    *)
(*                                                                         *)
(*     typedef int* B;              (implicit, no source location)         *)
(*     namespace N { namespace M { typedef <TypeOf.T> T; }                 *)
(*                   typedef <TypeOf.U> U; }                               *)
(*     namespace N { typedef <TypeOf.W> W;        (N reopened)             *)
(*                   namespace K { typedef int* Y; } }                     *)
(*     class C { private: typedef <TypeOf.X> X; };                         *)
(*     class C;                                   (C declared again)       *)
(*     int V;                                                              *)
(*                                                                         *)
(* with the list of start names, and the qualifiers of the types of T, U,  *)
(* W and X, chosen in Init.                                                *)
(***************************************************************************)
EXTENDS Integers, Sequences, FiniteSets, TLC

\* Longest list of --castxml-start names tried.
MaxStartNames == 2

(***************************************************************************)
(* The AST (the read-only interface the visitor consumes from Clang).      *)
(***************************************************************************)

\* Declarations.  N1 and N2 are the two blocks of namespace N; C is the
\* definition of class C and CR its later redeclaration; CI is the injected
\* class name of C; AS is the access specifier "private:".
Decls == {"TU", "B", "N1", "N2", "M", "K", "T", "U", "W", "Y", "C", "CR", "CI",
          "AS", "X", "V"}

\* The null declaration pointer.
NullDecl == "null"

\* clang::Decl::getKind().
DeclKind(d) ==
  CASE d = "TU" -> "TranslationUnit"
    [] d \in {"N1", "N2", "M", "K"} -> "Namespace"
    [] d \in {"B", "T", "U", "W", "X", "Y"} -> "Typedef"
    [] d \in {"C", "CR", "CI"} -> "CXXRecord"
    [] d = "AS" -> "AccessSpec"
    [] OTHER -> "Var"

\* clang::Decl::getCanonicalDecl(): the first declaration of the entity.
\* The injected class name is a declaration of its own, not a
\* redeclaration of the class.
CanonicalDecl(d) ==
  CASE d = "N2" -> "N1"
    [] d = "CR" -> "C"
    [] OTHER -> d

\* clang::CXXRecordDecl::isInjectedClassName().
IsInjectedClassName(d) == d = "CI"

\* clang::Decl::getDeclContext(): the declaration block holding d.
DeclContextOf(d) ==
  CASE d \in {"B", "N1", "N2", "C", "CR", "V"} -> "TU"
    [] d \in {"M", "U"} -> "N1"
    [] d \in {"W", "K"} -> "N2"
    [] d = "T" -> "M"
    [] d = "Y" -> "K"
    [] d \in {"CI", "AS", "X"} -> "C"
    [] OTHER -> NullDecl

\* clang::dyn_cast<clang::DeclContext>(d) succeeds.
IsDeclContext(d) == DeclKind(d) \in {"TranslationUnit", "Namespace", "CXXRecord"}

\* clang::dyn_cast<clang::Decl>(dc) succeeds: every context of this AST is
\* a declaration.
ContextIsDecl(dc) == dc \in Decls

\* clang::DeclContext::isRecord().
IsRecord(dc) == DeclKind(dc) = "CXXRecord"

\* decls_begin()..decls_end() of one declaration block, in source order.
DeclsOf(dc) ==
  CASE dc = "TU" -> <<"B", "N1", "N2", "C", "CR", "V">>
    [] dc = "N1" -> <<"M", "U">>
    [] dc = "N2" -> <<"W", "K">>
    [] dc = "M" -> <<"T">>
    [] dc = "K" -> <<"Y">>
    [] dc = "C" -> <<"CI", "AS", "X">>
    [] OTHER -> <<>>

\* Names are strings of one-character symbols.
DeclName(d) ==
  CASE d \in {"N1", "N2"} -> <<"N">>
    [] d \in {"C", "CR", "CI"} -> <<"C">>
    [] d \in {"TU", "AS"} -> <<>>
    [] OTHER -> <<d>>

\* clang::Decl::getAccess().
AccessOf(d) == IF d = "X" THEN "AS_private" ELSE "AS_none"

\* The file of the expansion location of d->getLocation(); 0 when the
\* location is invalid or has no file entry.
NullFile == "nofile"
FileOf(d) ==
  CASE d \in {"T", "U", "X"} -> "main.cxx"
    [] d \in {"W", "Y"} -> "more.h"
    [] OTHER -> NullFile

\* getExpansionLineNumber().
LineOf(d) ==
  CASE d = "T" -> 2 [] d = "U" -> 3 [] d = "W" -> 1 [] d = "Y" -> 2
    [] d = "X" -> 6 [] OTHER -> 0

\* clang::DeclContext::lookup(): the declarations named cur in the primary
\* context of dc, one per entity (its most recent declaration).
LookupOrder == <<"B", "N2", "M", "K", "T", "U", "W", "Y", "CR", "CI", "X", "V">>
LookupTest(dc, cur, d) ==
  /\ CanonicalDecl(DeclContextOf(d)) = CanonicalDecl(dc)
  /\ DeclName(d) = cur
Lookup(dc, cur) ==
  LET F[i \in 0..Len(LookupOrder)] ==
        IF i = 0 THEN <<>>
        ELSE IF LookupTest(dc, cur, LookupOrder[i])
             THEN Append(F[i-1], LookupOrder[i]) ELSE F[i-1]
  IN F[Len(LookupOrder)]

\* clang::QualType: a type pointer with the const, volatile and restrict
\* bits in its low-order bits.
BaseTypes == {"int*"}
QualTypes == [base : BaseTypes, c : BOOLEAN, v : BOOLEAN, r : BOOLEAN]
NullType == [base |-> "null", c |-> FALSE, v |-> FALSE, r |-> FALSE]

\* QualType::hasLocalQualifiers(), getLocalUnqualifiedType().
HasLocalQualifiers(t) == t.c \/ t.v \/ t.r
LocalUnqualifiedType(t) == [t EXCEPT !.c = FALSE, !.v = FALSE, !.r = FALSE]

Typedefs == {"B", "T", "U", "W", "X", "Y"}

(***************************************************************************)
(* std::string operations used by LookupStart.                             *)
(***************************************************************************)

\* std::string::npos.
Npos == 0

\* name.find("::"): the first position of "::" in name, or npos.
Find(name) ==
  LET Hits == {i \in 1..(Len(name) - 1) : name[i] = ":" /\ name[i+1] = ":"}
  IN IF Hits = {} THEN Npos ELSE CHOOSE i \in Hits : \A j \in Hits : i <= j

\* name.substr(0, pos): the whole string when pos is npos.
SubstrTo(name, pos) == IF pos = Npos THEN name ELSE SubSeq(name, 1, pos - 1)

\* name.substr(pos+2).
SubstrFrom(name, pos) == SubSeq(name, pos + 2, Len(name))

\* The start names tried: N, N::M, N::M::T, N::U, N::W, N::K::Y, C::X, and
\* three that name nothing: Z, N::Z and N::U::T (U is not a context).
StartChoices ==
  { <<"N">>,
    <<"N", ":", ":", "M">>,
    <<"N", ":", ":", "M", ":", ":", "T">>,
    <<"N", ":", ":", "U">>,
    <<"N", ":", ":", "W">>,
    <<"N", ":", ":", "K", ":", ":", "Y">>,
    <<"C", ":", ":", "X">>,
    <<"Z">>,
    <<"N", ":", ":", "Z">>,
    <<"N", ":", ":", "U", ":", ":", "T">> }

StartLists == UNION {[1..n -> StartChoices] : n \in 0..MaxStartNames}

\* The types the typedefs of the AST may name: T any const and volatile
\* form, W its unqualified form, U the unqualified type or its const
\* volatile form, X the type of U made const and restrict.
TypeChoices ==
  LET Plain == [base |-> "int*", c |-> FALSE, v |-> FALSE, r |-> FALSE]
      TypesFor(t, u) ==
        [d \in Typedefs |->
           CASE d = "T" -> t
             [] d = "W" -> LocalUnqualifiedType(t)
             [] d = "U" -> u
             [] d = "X" -> [u EXCEPT !.c = TRUE, !.r = TRUE]
             [] OTHER -> Plain]
  IN {TypesFor(t, u) : t \in {q \in QualTypes : ~q.r},
                       u \in {q \in QualTypes : q.c = q.v /\ ~q.r}}

(***************************************************************************)
(* The state of one ASTVisitor.                                            *)
(***************************************************************************)
VARIABLES
  StartNames,       \* the start names given to the constructor
  TypeOf,           \* the AST: the type each typedef names
  pc,               \* position in HandleTranslationUnit
  NodeCount,
  FileCount,
  RequireComplete,
  DeclNodes,        \* canonical declaration -> DumpNode
  TypeNodes,        \* QualType -> DumpNode
  FileNodes,        \* file entry -> file index
  Queue,            \* node traversal queue
  FileQueue,        \* file traversal queue
  OS,               \* the elements written to the output stream
  calls,            \* history: the AddDumpNodeImpl calls made and the pushes of the sweep
  dispatched,       \* history: the queue entries ProcessQueue has dispatched
  steps             \* history: the number of steps HandleTranslationUnit has taken

vars == <<StartNames, TypeOf, pc, NodeCount, FileCount, RequireComplete,
          DeclNodes, TypeNodes, FileNodes, Queue, FileQueue, OS, calls,
          dispatched, steps>>

\* ASTVisitorBase::DumpNode as default-constructed.
DumpNode == [Index |-> 0, Complete |-> FALSE]

\* ASTVisitor::QueueEntry (its DN member points at the map entry of the
\* same key, so it is read through the key).
QueueEntry(kind, k) ==
  IF kind = "KindDecl"
  THEN [Kind |-> "KindDecl", Decl |-> k, Type |-> NullType]
  ELSE [Kind |-> "KindType", Decl |-> NullDecl, Type |-> k]

\* The key of a queue entry.
KeyOf(qe) == IF qe.Kind = "KindDecl" THEN qe.Decl ELSE qe.Type

\* The visitor's members as one record, threaded through the operators
\* that model its methods; ret holds the value the last call returned.
Visitor ==
  [ NodeCount |-> NodeCount, FileCount |-> FileCount,
    RequireComplete |-> RequireComplete,
    DeclNodes |-> DeclNodes, TypeNodes |-> TypeNodes, FileNodes |-> FileNodes,
    Queue |-> Queue, FileQueue |-> FileQueue, OS |-> OS,
    calls |-> calls, dispatched |-> dispatched, TypeOf |-> TypeOf, ret |-> 0 ]

\* The visitor's members after a method: s is written back.
Commit(s) ==
  /\ NodeCount' = s.NodeCount
  /\ FileCount' = s.FileCount
  /\ RequireComplete' = s.RequireComplete
  /\ DeclNodes' = s.DeclNodes
  /\ TypeNodes' = s.TypeNodes
  /\ FileNodes' = s.FileNodes
  /\ Queue' = s.Queue
  /\ FileQueue' = s.FileQueue
  /\ OS' = s.OS
  /\ calls' = s.calls
  /\ dispatched' = s.dispatched

\* The map a key of the given kind lives in.
NodesOf(s, kind) == IF kind = "KindDecl" THEN s.DeclNodes ELSE s.TypeNodes

\* The DumpNode a queue entry or a key points at.
NodeAt(s, kind, k) == NodesOf(s, kind)[k]

\* ASTVisitor::GetDumpNode: operator[] of the map inserts a default
\* DumpNode for a key it does not hold.
GetDumpNode(s, kind, k) ==
  IF k \in DOMAIN NodesOf(s, kind) THEN s
  ELSE IF kind = "KindDecl"
       THEN [s EXCEPT !.DeclNodes = (k :> DumpNode) @@ @]
       ELSE [s EXCEPT !.TypeNodes = (k :> DumpNode) @@ @]

\* Assignment through the DumpNode pointer.
SetNode(s, kind, k, dn) ==
  IF kind = "KindDecl"
  THEN [s EXCEPT !.DeclNodes[k] = dn]
  ELSE [s EXCEPT !.TypeNodes[k] = dn]

\* One entry of the history of calls.
CallRecord(s, kind, k, complete, branch, pushed, ret) ==
  [ entry |-> QueueEntry(kind, k), complete |-> complete, branch |-> branch,
    pushed |-> pushed, ret |-> ret, require |-> s.RequireComplete ]

\* AddDumpNodeImpl giving a node a fresh index when it becomes complete.
AddDumpNodeImpl_Renumber(s, kind, k, complete) ==
  LET s1 == GetDumpNode(s, kind, k)
      dn == NodeAt(s1, kind, k)
      n == s1.NodeCount + 1
  IN IF dn.Index # 0 /\ ~(complete /\ ~dn.Complete)
     THEN [ s1 EXCEPT !.calls = Append(@, CallRecord(s, kind, k, complete,
                                                     "seen", FALSE, dn.Index)),
                      !.ret = dn.Index ]
     ELSE [ SetNode(s1, kind, k, [Index |-> n, Complete |-> complete])
            EXCEPT !.NodeCount = n,
                   !.Queue = IF complete \/ ~s1.RequireComplete
                             THEN Append(@, QueueEntry(kind, k)) ELSE @,
                   !.calls = Append(@, CallRecord(s, kind, k, complete,
                                                  IF dn.Index # 0 THEN "upgrade" ELSE "new",
                                                  complete \/ ~s1.RequireComplete, n)),
                   !.ret = n ]

\* AddDumpNodeImpl without the upgrade of a node already encountered.
AddDumpNodeImpl_NoUpgrade(s, kind, k, complete) ==
  LET s1 == GetDumpNode(s, kind, k)
      dn == NodeAt(s1, kind, k)
      n == s1.NodeCount + 1
      push == complete \/ ~s1.RequireComplete
  IN IF dn.Index # 0
     THEN [ s1 EXCEPT !.calls = Append(@, CallRecord(s, kind, k, complete,
                                                     "seen", FALSE, dn.Index)),
                      !.ret = dn.Index ]
     ELSE [ SetNode(s1, kind, k, [Index |-> n, Complete |-> complete])
            EXCEPT !.NodeCount = n,
                   !.Queue = IF push THEN Append(@, QueueEntry(kind, k)) ELSE @,
                   !.calls = Append(@, CallRecord(s, kind, k, complete,
                                                  "new", push, n)),
                   !.ret = n ]

\* AddDumpNodeImpl storing the completeness asked for on every call.
AddDumpNodeImpl_Overwrite(s, kind, k, complete) ==
  LET s1 == GetDumpNode(s, kind, k)
      dn == NodeAt(s1, kind, k)
      n == s1.NodeCount + 1
      push == complete \/ ~s1.RequireComplete
  IN IF dn.Index # 0
     THEN [ SetNode(s1, kind, k, [dn EXCEPT !.Complete = complete])
            EXCEPT !.Queue = IF complete /\ ~dn.Complete
                             THEN Append(@, QueueEntry(kind, k)) ELSE @,
                   !.calls = Append(@, CallRecord(s, kind, k, complete,
                                                  IF complete /\ ~dn.Complete
                                                  THEN "upgrade" ELSE "seen",
                                                  complete /\ ~dn.Complete, dn.Index)),
                   !.ret = dn.Index ]
     ELSE [ SetNode(s1, kind, k, [Index |-> n, Complete |-> complete])
            EXCEPT !.NodeCount = n,
                   !.Queue = IF push THEN Append(@, QueueEntry(kind, k)) ELSE @,
                   !.calls = Append(@, CallRecord(s, kind, k, complete,
                                                  "new", push, n)),
                   !.ret = n ]

\* AddDumpNodeImpl numbering declarations and types separately.
AddDumpNodeImpl_PerKind(s, kind, k, complete) ==
  LET s1 == GetDumpNode(s, kind, k)
      dn == NodeAt(s1, kind, k)
      n == Cardinality(DOMAIN NodesOf(s1, kind))
      push == complete \/ ~s1.RequireComplete
  IN IF dn.Index # 0
     THEN IF complete /\ ~dn.Complete
          THEN [ SetNode(s1, kind, k, [dn EXCEPT !.Complete = TRUE])
                 EXCEPT !.Queue = Append(@, QueueEntry(kind, k)),
                        !.calls = Append(@, CallRecord(s, kind, k, complete,
                                                       "upgrade", TRUE, dn.Index)),
                        !.ret = dn.Index ]
          ELSE [ s1 EXCEPT !.calls = Append(@, CallRecord(s, kind, k, complete,
                                                          "seen", FALSE, dn.Index)),
                           !.ret = dn.Index ]
     ELSE [ SetNode(s1, kind, k, [Index |-> n, Complete |-> complete])
            EXCEPT !.NodeCount = @ + 1,
                   !.Queue = IF push THEN Append(@, QueueEntry(kind, k)) ELSE @,
                   !.calls = Append(@, CallRecord(s, kind, k, complete,
                                                  "new", push, n)),
                   !.ret = n ]

\* AddDumpNodeImpl queueing every node it creates, whatever RequireComplete.
AddDumpNodeImpl_PushAlways(s, kind, k, complete) ==
  LET s1 == GetDumpNode(s, kind, k)
      dn == NodeAt(s1, kind, k)
      n == s1.NodeCount + 1
  IN IF dn.Index # 0
     THEN IF complete /\ ~dn.Complete
          THEN [ SetNode(s1, kind, k, [dn EXCEPT !.Complete = TRUE])
                 EXCEPT !.Queue = Append(@, QueueEntry(kind, k)),
                        !.calls = Append(@, CallRecord(s, kind, k, complete,
                                                       "upgrade", TRUE, dn.Index)),
                        !.ret = dn.Index ]
          ELSE [ s1 EXCEPT !.calls = Append(@, CallRecord(s, kind, k, complete,
                                                          "seen", FALSE, dn.Index)),
                           !.ret = dn.Index ]
     ELSE [ SetNode(s1, kind, k, [Index |-> n, Complete |-> complete])
            EXCEPT !.NodeCount = n,
                   !.Queue = Append(@, QueueEntry(kind, k)),
                   !.calls = Append(@, CallRecord(s, kind, k, complete,
                                                  "new", TRUE, n)),
                   !.ret = n ]

\* AddDumpNodeImpl queueing a complete node again when its completion is
\* asked for again.
AddDumpNodeImpl_Requeue(s, kind, k, complete) ==
  LET s1 == GetDumpNode(s, kind, k)
      dn == NodeAt(s1, kind, k)
      n == s1.NodeCount + 1
      push == complete \/ ~s1.RequireComplete
  IN IF dn.Index # 0
     THEN IF complete
          THEN [ SetNode(s1, kind, k, [dn EXCEPT !.Complete = TRUE])
                 EXCEPT !.Queue = Append(@, QueueEntry(kind, k)),
                        !.calls = Append(@, CallRecord(s, kind, k, complete,
                                                       IF dn.Complete THEN "seen"
                                                       ELSE "upgrade",
                                                       TRUE, dn.Index)),
                        !.ret = dn.Index ]
          ELSE [ s1 EXCEPT !.calls = Append(@, CallRecord(s, kind, k, complete,
                                                          "seen", FALSE, dn.Index)),
                           !.ret = dn.Index ]
     ELSE [ SetNode(s1, kind, k, [Index |-> n, Complete |-> complete])
            EXCEPT !.NodeCount = n,
                   !.Queue = IF push THEN Append(@, QueueEntry(kind, k)) ELSE @,
                   !.calls = Append(@, CallRecord(s, kind, k, complete,
                                                  "new", push, n)),
                   !.ret = n ]

\* AddDumpNodeImpl queueing a node it creates only when its completion is
\* asked for, whatever RequireComplete.
AddDumpNodeImpl_CompleteOnly(s, kind, k, complete) ==
  LET s1 == GetDumpNode(s, kind, k)
      dn == NodeAt(s1, kind, k)
      n == s1.NodeCount + 1
  IN IF dn.Index # 0
     THEN IF complete /\ ~dn.Complete
          THEN [ SetNode(s1, kind, k, [dn EXCEPT !.Complete = TRUE])
                 EXCEPT !.Queue = Append(@, QueueEntry(kind, k)),
                        !.calls = Append(@, CallRecord(s, kind, k, complete,
                                                       "upgrade", TRUE, dn.Index)),
                        !.ret = dn.Index ]
          ELSE [ s1 EXCEPT !.calls = Append(@, CallRecord(s, kind, k, complete,
                                                          "seen", FALSE, dn.Index)),
                           !.ret = dn.Index ]
     ELSE [ SetNode(s1, kind, k, [Index |-> n, Complete |-> complete])
            EXCEPT !.NodeCount = n,
                   !.Queue = IF complete THEN Append(@, QueueEntry(kind, k)) ELSE @,
                   !.calls = Append(@, CallRecord(s, kind, k, complete,
                                                  "new", complete, n)),
                   !.ret = n ]

\* AddDumpNodeImpl queueing a node whose completion is asked for without
\* setting its Complete flag.
AddDumpNodeImpl_PushUnset(s, kind, k, complete) ==
  LET s1 == GetDumpNode(s, kind, k)
      dn == NodeAt(s1, kind, k)
      n == s1.NodeCount + 1
      push == complete \/ ~s1.RequireComplete
  IN IF dn.Index # 0
     THEN IF complete /\ ~dn.Complete
          THEN [ s1 EXCEPT !.Queue = Append(@, QueueEntry(kind, k)),
                           !.calls = Append(@, CallRecord(s, kind, k, complete,
                                                          "upgrade", TRUE, dn.Index)),
                           !.ret = dn.Index ]
          ELSE [ s1 EXCEPT !.calls = Append(@, CallRecord(s, kind, k, complete,
                                                          "seen", FALSE, dn.Index)),
                           !.ret = dn.Index ]
     ELSE [ SetNode(s1, kind, k, [Index |-> n, Complete |-> complete])
            EXCEPT !.NodeCount = n,
                   !.Queue = IF push THEN Append(@, QueueEntry(kind, k)) ELSE @,
                   !.calls = Append(@, CallRecord(s, kind, k, complete,
                                                  "new", push, n)),
                   !.ret = n ]

\* ASTVisitor::AddDumpNodeImpl.
AddDumpNodeImpl(s, kind, k, complete) ==
  LET s1 == GetDumpNode(s, kind, k)
      dn == NodeAt(s1, kind, k)
  IN IF dn.Index # 0
     THEN IF complete /\ ~dn.Complete
          THEN [ SetNode(s1, kind, k, [dn EXCEPT !.Complete = TRUE])
                 EXCEPT !.Queue = Append(@, QueueEntry(kind, k)),
                        !.calls = Append(@, CallRecord(s, kind, k, complete,
                                                       "upgrade", TRUE, dn.Index)),
                        !.ret = dn.Index ]
          ELSE [ s1 EXCEPT !.calls = Append(@, CallRecord(s, kind, k, complete,
                                                          "seen", FALSE, dn.Index)),
                           !.ret = dn.Index ]
     ELSE LET n == s1.NodeCount + 1
              push == complete \/ ~s1.RequireComplete
          IN [ SetNode(s1, kind, k, [Index |-> n, Complete |-> complete])
               EXCEPT !.NodeCount = n,
                      !.Queue = IF push THEN Append(@, QueueEntry(kind, k)) ELSE @,
                      !.calls = Append(@, CallRecord(s, kind, k, complete,
                                                     "new", push, n)),
                      !.ret = n ]

\* AddDumpNode keyed by the declaration as given.
AddDumpNodeDecl_AsGiven(s, d, complete) ==
  AddDumpNodeImpl(s, "KindDecl", d, complete)

\* ASTVisitor::AddDumpNode(clang::Decl const*, bool).
AddDumpNodeDecl(s, d, complete) ==
  AddDumpNodeImpl(s, "KindDecl", CanonicalDecl(d), complete)

\* ASTVisitor::AddDumpNode(clang::QualType, bool).
AddDumpNodeType(s, t, complete) == AddDumpNodeImpl(s, "KindType", t, complete)

\* AddDumpFile taking the file's index from the counter of the nodes.
AddDumpFile_SharedCounter(s, f) ==
  LET s1 == IF f \in DOMAIN s.FileNodes THEN s
            ELSE [s EXCEPT !.FileNodes = (f :> 0) @@ @]
  IN IF s1.FileNodes[f] = 0
     THEN LET n == s1.NodeCount + 1
          IN [ s1 EXCEPT !.FileNodes[f] = n, !.NodeCount = n,
                         !.FileCount = @ + 1,
                         !.FileQueue = Append(@, f), !.ret = n ]
     ELSE [s1 EXCEPT !.ret = s1.FileNodes[f]]

\* AddDumpFile queueing the file at every reference to it.
AddDumpFile_Requeue(s, f) ==
  LET s1 == IF f \in DOMAIN s.FileNodes THEN s
            ELSE [s EXCEPT !.FileNodes = (f :> 0) @@ @]
      n == IF s1.FileNodes[f] = 0 THEN s1.FileCount + 1 ELSE s1.FileNodes[f]
  IN [ s1 EXCEPT !.FileNodes[f] = n,
                 !.FileCount = IF s1.FileNodes[f] = 0 THEN n ELSE @,
                 !.FileQueue = Append(@, f), !.ret = n ]

\* ASTVisitor::AddDumpFile.
AddDumpFile(s, f) ==
  LET s1 == IF f \in DOMAIN s.FileNodes THEN s
            ELSE [s EXCEPT !.FileNodes = (f :> 0) @@ @]
  IN IF s1.FileNodes[f] = 0
     THEN LET n == s1.FileCount + 1
          IN [ s1 EXCEPT !.FileNodes[f] = n, !.FileCount = n,
                         !.FileQueue = Append(@, f), !.ret = n ]
     ELSE [s1 EXCEPT !.ret = s1.FileNodes[f]]

(***************************************************************************)
(* Output: an element is a record of the attributes printed for it; an     *)
(* attribute that is not printed keeps its empty value.                    *)
(***************************************************************************)

\* An element just opened: "  <Tag".
Element(tag) ==
  [ tag |-> tag, id |-> 0, name |-> <<>>, named |-> FALSE,
    type |-> 0, quals |-> <<>>, context |-> 0, access |-> "",
    file |-> 0, line |-> 0, members |-> <<>>, kind |-> "", type_class |-> "" ]

\* this->OS << "  <Tag".
Open(s, tag) == [s EXCEPT !.OS = Append(@, Element(tag))]

\* this->OS << an attribute of the element being written.
Put(s, attr, value) == [s EXCEPT !.OS[Len(s.OS)][attr] = value]

\* A DumpNode const* points into one of the maps: it is the queue entry
\* whose key it was taken for, and *dn is read from the map when used.
Deref(s, dn) == NodeAt(s, dn.Kind, KeyOf(dn))

\* ASTVisitorBase::OutputUnimplementedDecl.
OutputUnimplementedDecl(s, d, dn) ==
  Put(Put(Open(s, "Unimplemented"), "id", Deref(s, dn).Index), "kind", DeclKind(d))

\* ASTVisitorBase::OutputUnimplementedType: every type class is reported
\* as unimplemented.
OutputUnimplementedType(s, t, dn) ==
  Put(Put(Open(s, "Unimplemented"), "id", Deref(s, dn).Index), "type_class", t.base)

\* ASTVisitor::OutputCvQualifiedType: writes nothing.
OutputCvQualifiedType(s, t, dn) == s

\* ASTVisitor::OutputType.
OutputType(s, t, dn) ==
  IF HasLocalQualifiers(t)
  THEN OutputCvQualifiedType(s, t, dn)
  ELSE OutputUnimplementedType(s, t, dn)

\* GetContextIdRef asking for the completion of the context.
GetContextIdRef_Complete(s, dc) ==
  IF ContextIsDecl(dc)
  THEN AddDumpNodeDecl(s, dc, TRUE)
  ELSE [s EXCEPT !.ret = 0]

\* ASTVisitor::GetContextIdRef.
GetContextIdRef(s, dc) ==
  IF ContextIsDecl(dc)
  THEN AddDumpNodeDecl(s, dc, FALSE)
  ELSE [s EXCEPT !.ret = 0]

\* GetTypeIdRef returning the id of the type as given.
GetTypeIdRef_Qualified(s, t, complete) ==
  LET s1 == AddDumpNodeType(s, t, complete)
      s2 == IF HasLocalQualifiers(t)
            THEN AddDumpNodeType(s1, LocalUnqualifiedType(t), complete)
            ELSE s1
  IN [s2 EXCEPT !.ret = s1.ret]

\* GetTypeIdRef adding the unqualified type alone.
GetTypeIdRef_UnqualifiedOnly(s, t, complete) ==
  AddDumpNodeType(s, LocalUnqualifiedType(t), complete)

\* ASTVisitor::GetTypeIdRef: ret is the id; qc, qv and qr are read from t
\* by the caller.
GetTypeIdRef(s, t, complete) ==
  LET s1 == AddDumpNodeType(s, t, complete)
  IN IF HasLocalQualifiers(t)
     THEN AddDumpNodeType(s1, LocalUnqualifiedType(t), complete)
     ELSE s1

\* The letters PrintTypeIdRef appends to the id.
QualifierSuffix(qc, qv, qr) ==
  (IF qc THEN <<"c">> ELSE <<>>) \o (IF qv THEN <<"v">> ELSE <<>>)
    \o (IF qr THEN <<"r">> ELSE <<>>)

\* ASTVisitor::PrintTypeIdRef, within PrintTypeAttribute.
PrintTypeIdRef(s, t, complete) ==
  LET s1 == GetTypeIdRef(s, t, complete)
  IN Put(Put(s1, "type", s1.ret), "quals", QualifierSuffix(t.c, t.v, t.r))

\* ASTVisitor::PrintTypeAttribute.
PrintTypeAttribute(s, t, complete) == PrintTypeIdRef(s, t, complete)

\* ASTVisitor::PrintIdAttribute.
PrintIdAttribute(s, dn) == Put(s, "id", Deref(s, dn).Index)

\* ASTVisitor::PrintNameAttribute.
PrintNameAttribute(s, name) == Put(Put(s, "name", name), "named", TRUE)

\* ASTVisitor::PrintLocationAttribute.
PrintLocationAttribute(s, d) ==
  IF FileOf(d) = NullFile THEN s
  ELSE LET s1 == AddDumpFile(s, FileOf(d))
       IN Put(Put(s1, "file", s1.ret), "line", LineOf(d))

\* ASTVisitor::PrintContextAttribute.
PrintContextAttribute(s, d) ==
  LET dc == DeclContextOf(d)
      s1 == GetContextIdRef(s, dc)
  IN IF s1.ret # 0
     THEN LET s2 == Put(s1, "context", s1.ret)
          IN IF IsRecord(dc)
             THEN Put(s2, "access",
                      IF AccessOf(d) = "AS_private" THEN "private"
                      ELSE IF AccessOf(d) = "AS_protected" THEN "protected"
                      ELSE "public")
             ELSE s2
     ELSE s1

\* Whether PrintMembersAttribute ignores the member d.
IgnoredMember(d) ==
  \/ DeclKind(d) = "CXXRecord" /\ IsInjectedClassName(d)
  \/ DeclKind(d) = "AccessSpec"

\* The elements of a std::set<unsigned int> in iteration order: ascending.
RECURSIVE SetToSeq(_)
SetToSeq(S) ==
  IF S = {} THEN <<>>
  ELSE LET m == CHOOSE x \in S : \A y \in S : x <= y
       IN <<m>> \o SetToSeq(S \ {m})

\* The loop of PrintMembersAttribute over the members ds: the visitor
\* after it, and the set emitted.
RECURSIVE MembersLoop(_, _, _)
MembersLoop(s, ds, emitted) ==
  IF ds = <<>> THEN [s |-> s, emitted |-> emitted]
  ELSE IF IgnoredMember(Head(ds)) THEN MembersLoop(s, Tail(ds), emitted)
  ELSE LET s1 == AddDumpNodeDecl(s, Head(ds), TRUE)
       IN MembersLoop(s1, Tail(ds),
                      IF s1.ret # 0 THEN emitted \cup {s1.ret} ELSE emitted)

\* ASTVisitor::PrintMembersAttribute.
PrintMembersAttribute(s, dc) ==
  LET r == MembersLoop(s, DeclsOf(dc), {})
  IN IF r.emitted # {} THEN Put(r.s, "members", SetToSeq(r.emitted)) ELSE r.s

\* OutputTranslationUnitDecl printing the members of an incomplete node
\* too.
OutputTranslationUnitDecl_AlwaysMembers(s, d, dn) ==
  LET s1 == PrintNameAttribute(PrintIdAttribute(Open(s, "Namespace"), dn),
                               <<":", ":">>)
  IN PrintMembersAttribute(s1, d)

\* ASTVisitor::OutputTranslationUnitDecl.
OutputTranslationUnitDecl(s, d, dn) ==
  LET s1 == PrintNameAttribute(PrintIdAttribute(Open(s, "Namespace"), dn),
                               <<":", ":">>)
  IN IF Deref(s1, dn).Complete THEN PrintMembersAttribute(s1, d) ELSE s1

\* OutputNamespaceDecl printing the members of an incomplete node too.
OutputNamespaceDecl_AlwaysMembers(s, d, dn) ==
  LET s1 == PrintNameAttribute(PrintIdAttribute(Open(s, "Namespace"), dn),
                               DeclName(d))
      s2 == PrintContextAttribute(s1, d)
  IN PrintMembersAttribute(s2, d)

\* ASTVisitor::OutputNamespaceDecl.
OutputNamespaceDecl(s, d, dn) ==
  LET s1 == PrintNameAttribute(PrintIdAttribute(Open(s, "Namespace"), dn),
                               DeclName(d))
      s2 == PrintContextAttribute(s1, d)
  IN IF Deref(s2, dn).Complete THEN PrintMembersAttribute(s2, d) ELSE s2

\* ASTVisitor::OutputTypedefDecl.
OutputTypedefDecl(s, d, dn) ==
  LET s1 == PrintNameAttribute(PrintIdAttribute(Open(s, "Typedef"), dn),
                               DeclName(d))
      s2 == PrintTypeAttribute(s1, s.TypeOf[d], Deref(s1, dn).Complete)
      s3 == PrintContextAttribute(s2, d)
  IN PrintLocationAttribute(s3, d)

\* ASTVisitor::OutputDecl.
OutputDecl(s, d, dn) ==
  CASE DeclKind(d) = "TranslationUnit" -> OutputTranslationUnitDecl(s, d, dn)
    [] DeclKind(d) = "Namespace" -> OutputNamespaceDecl(s, d, dn)
    [] DeclKind(d) = "Typedef" -> OutputTypedefDecl(s, d, dn)
    [] OTHER -> OutputUnimplementedDecl(s, d, dn)

\* ASTVisitor::LookupStart, and its loops over the lookup result r.
RECURSIVE LookupStart(_, _, _)
RECURSIVE LookupAdd(_, _)
RECURSIVE LookupRecurse(_, _, _)
LookupAdd(s, r) ==
  IF r = <<>> THEN s ELSE LookupAdd(AddDumpNodeDecl(s, Head(r), TRUE), Tail(r))
\* LookupStart adding each context it goes through.
LookupRecurse_AddContext(s, r, rest) ==
  IF r = <<>> THEN s
  ELSE LookupRecurse(IF IsDeclContext(Head(r))
                     THEN LookupStart(AddDumpNodeDecl(s, Head(r), TRUE), Head(r), rest)
                     ELSE s,
                     Tail(r), rest)
LookupRecurse(s, r, rest) ==
  IF r = <<>> THEN s
  ELSE LookupRecurse(IF IsDeclContext(Head(r))
                     THEN LookupStart(s, Head(r), rest) ELSE s,
                     Tail(r), rest)
LookupStart(s, dc, name) ==
  LET pos == Find(name)
      cur == SubstrTo(name, pos)
      r == Lookup(dc, cur)
  IN IF pos = Npos THEN LookupAdd(s, r)
     ELSE LookupRecurse(s, r, SubstrFrom(name, pos))

\* The loop of HandleTranslationUnit over the start names.
RECURSIVE LookupStarts(_, _, _)
LookupStarts(s, tu, names) ==
  IF names = <<>> THEN s
  ELSE LookupStarts(LookupStart(s, tu, Head(names)), tu, Tail(names))

\* The orders in which a map whose keys are pointers may be iterated: the
\* order of the addresses is not fixed by the program.
IterationOrders(S) ==
  {f \in [1..Cardinality(S) -> S] : \A i, j \in 1..Cardinality(S) : f[i] = f[j] => i = j}

\* The keys of a map at which the loops of QueueIncompleteDumpNodes push:
\* the other keys are passed over, so only the order of these shows.
Incomplete(nodes) == {k \in DOMAIN nodes : ~nodes[k].Complete}

\* One loop of ASTVisitor::QueueIncompleteDumpNodes over the keys of a map.
RECURSIVE QueueIncomplete(_, _, _)
QueueIncomplete(s, kind, keys) ==
  IF keys = <<>> THEN s
  ELSE LET k == Head(keys)
           dn == NodeAt(s, kind, k)
       IN QueueIncomplete(
            IF ~dn.Complete
            THEN [s EXCEPT !.Queue = Append(@, QueueEntry(kind, k)),
                           !.calls = Append(@, CallRecord(s, kind, k, FALSE,
                                                          "sweep", TRUE, dn.Index))]
            ELSE s,
            kind, Tail(keys))

\* QueueIncompleteDumpNodes without its loop over the declarations.
QueueIncompleteDumpNodes_TypesOnly(s, declOrder, typeOrder) ==
  QueueIncomplete(s, "KindType", typeOrder)

\* QueueIncompleteDumpNodes going through the declarations twice.
QueueIncompleteDumpNodes_Twice(s, declOrder, typeOrder) ==
  QueueIncomplete(QueueIncomplete(QueueIncomplete(s, "KindDecl", declOrder),
                                  "KindDecl", declOrder),
                  "KindType", typeOrder)

\* ASTVisitor::QueueIncompleteDumpNodes, the maps iterated in the orders
\* given.
QueueIncompleteDumpNodes(s, declOrder, typeOrder) ==
  QueueIncomplete(QueueIncomplete(s, "KindDecl", declOrder), "KindType", typeOrder)

\* HandleTranslationUnit adding the translation unit without asking for its
\* completion.
BeginDump_Stub(s, tu, names) ==
  LET s1 == IF names # <<>>
            THEN LookupStarts(s, tu, names)
            ELSE AddDumpNodeDecl(s, tu, FALSE)
  IN [s1 EXCEPT !.OS = Append(@, Element("GCC_XML"))]

\* HandleTranslationUnit falling back to the whole translation unit when
\* the start names name nothing.
BeginDump_FallBack(s, tu, names) ==
  LET s0 == LookupStarts(s, tu, names)
      s1 == IF s0.NodeCount # 0 THEN s0 ELSE AddDumpNodeDecl(s0, tu, TRUE)
  IN [s1 EXCEPT !.OS = Append(@, Element("GCC_XML"))]

\* HandleTranslationUnit up to its first call of ProcessQueue: add the
\* starting nodes and open the document.
BeginDump(s, tu, names) ==
  LET s1 == IF names # <<>>
            THEN LookupStarts(s, tu, names)
            ELSE AddDumpNodeDecl(s, tu, TRUE)
  IN [s1 EXCEPT !.OS = Append(@, Element("GCC_XML"))]

\* HandleTranslationUnit leaving RequireComplete set.
BeginIncomplete_KeepRequire(s, declOrder, typeOrder) ==
  QueueIncompleteDumpNodes(s, declOrder, typeOrder)

\* HandleTranslationUnit between its two calls of ProcessQueue: clear
\* RequireComplete and queue all the incomplete nodes.
BeginIncomplete(s, declOrder, typeOrder) ==
  QueueIncompleteDumpNodes([s EXCEPT !.RequireComplete = FALSE],
                           declOrder, typeOrder)

\* ProcessQueue taking the entry pushed last.
ProcessQueueEntry_Lifo(s) ==
  LET qe == s.Queue[Len(s.Queue)]
      s1 == [s EXCEPT !.Queue = SubSeq(@, 1, Len(@) - 1),
                      !.dispatched = Append(@, [ entry |-> qe,
                                                 Complete |-> Deref(s, qe).Complete,
                                                 require |-> s.RequireComplete,
                                                 at |-> Len(s.OS) ])]
  IN IF qe.Kind = "KindDecl"
     THEN OutputDecl(s1, qe.Decl, qe)
     ELSE OutputType(s1, qe.Type, qe)

\* One iteration of the loop of ASTVisitor::ProcessQueue; the history
\* records the entry, *DN as the entry is taken, the step of the dump and
\* the number of elements written before it.
ProcessQueueEntry(s) ==
  LET qe == Head(s.Queue)
      s1 == [s EXCEPT !.Queue = Tail(@),
                      !.dispatched = Append(@, [ entry |-> qe,
                                                 Complete |-> Deref(s, qe).Complete,
                                                 require |-> s.RequireComplete,
                                                 at |-> Len(s.OS) ])]
  IN IF qe.Kind = "KindDecl"
     THEN OutputDecl(s1, qe.Decl, qe)
     ELSE OutputType(s1, qe.Type, qe)

\* One iteration of the loop of ASTVisitor::ProcessFileQueue.
ProcessFileQueueEntry(s) ==
  LET f == Head(s.FileQueue)
  IN [ s EXCEPT !.FileQueue = Tail(@),
                !.OS = Append(@, [Element("File") EXCEPT !.id = s.FileNodes[f],
                                                         !.name = <<f>>,
                                                         !.named = TRUE]) ]

(***************************************************************************)
(* ASTVisitor::HandleTranslationUnit, step by step.                        *)
(***************************************************************************)

Init ==
  /\ StartNames \in StartLists
  /\ TypeOf \in TypeChoices
  /\ pc = "start"
  /\ NodeCount = 0
  /\ FileCount = 0
  /\ RequireComplete = TRUE
  /\ DeclNodes = <<>>
  /\ TypeNodes = <<>>
  /\ FileNodes = <<>>
  /\ Queue = <<>>
  /\ FileQueue = <<>>
  /\ OS = <<>>
  /\ calls = <<>>
  /\ dispatched = <<>>
  /\ steps = 0

\* Add the starting nodes and write the opening of the document.
AddStartNodes ==
  /\ pc = "start"
  /\ Commit(BeginDump(Visitor, "TU", StartNames))
  /\ pc' = "complete"
  /\ steps' = steps + 1
  /\ UNCHANGED <<StartNames, TypeOf>>

\* ProcessQueue, in either step: dispatch the entry at the front.
ProcessQueue ==
  /\ pc \in {"complete", "incomplete"}
  /\ Queue # <<>>
  /\ Commit(ProcessQueueEntry(Visitor))
  /\ steps' = steps + 1
  /\ UNCHANGED <<StartNames, TypeOf, pc>>

\* The first ProcessQueue returns: queue all the incomplete nodes.
QueueIncompleteNodes ==
  /\ pc = "complete"
  /\ Queue = <<>>
  /\ \E declOrder \in IterationOrders(Incomplete(DeclNodes)),
        typeOrder \in IterationOrders(Incomplete(TypeNodes)) :
       Commit(BeginIncomplete(Visitor, declOrder, typeOrder))
  /\ pc' = "incomplete"
  /\ steps' = steps + 1
  /\ UNCHANGED <<StartNames, TypeOf>>

\* ProcessQueue returning while entries are left on the queue.
NodesDone_Early ==
  /\ pc = "incomplete"
  /\ pc' = "files"
  /\ steps' = steps + 1
  /\ UNCHANGED <<StartNames, TypeOf, NodeCount, FileCount, RequireComplete,
                 DeclNodes, TypeNodes, FileNodes, Queue, FileQueue, OS, calls,
                 dispatched>>

\* The second ProcessQueue returns.
NodesDone ==
  /\ pc = "incomplete"
  /\ Queue = <<>>
  /\ pc' = "files"
  /\ steps' = steps + 1
  /\ UNCHANGED <<StartNames, TypeOf, NodeCount, FileCount, RequireComplete,
                 DeclNodes, TypeNodes, FileNodes, Queue, FileQueue, OS, calls,
                 dispatched>>

\* ProcessFileQueue: write the file at the front.
ProcessFileQueue ==
  /\ pc = "files"
  /\ FileQueue # <<>>
  /\ Commit(ProcessFileQueueEntry(Visitor))
  /\ steps' = steps + 1
  /\ UNCHANGED <<StartNames, TypeOf, pc>>

\* ProcessFileQueue returns: finish the dump.
Finish ==
  /\ pc = "files"
  /\ FileQueue = <<>>
  /\ OS' = Append(OS, Element("/GCC_XML"))
  /\ pc' = "done"
  /\ steps' = steps + 1
  /\ UNCHANGED <<StartNames, TypeOf, NodeCount, FileCount, RequireComplete,
                 DeclNodes, TypeNodes, FileNodes, Queue, FileQueue, calls,
                 dispatched>>

Next ==
  \/ AddStartNodes
  \/ ProcessQueue
  \/ QueueIncompleteNodes
  \/ NodesDone
  \/ ProcessFileQueue
  \/ Finish

Spec == Init /\ [][Next]_vars

(***************************************************************************)
(* What the claims speak of.                                               *)
(***************************************************************************)

\* The elements of a sequence.
Range(q) == {q[i] : i \in 1..Len(q)}

\* The positions in OS of the node elements (everything but the document
\* element and the File elements).
NodeElements == {i \in 1..Len(OS) : OS[i].tag \in {"Namespace", "Typedef", "Unimplemented"}}

\* The node elements whose id attribute is n.
ElementsWithId(n) == {i \in NodeElements : OS[i].id = n}

\* The identities in the registries, as queue entries.
Registered ==
  {QueueEntry("KindDecl", d) : d \in DOMAIN DeclNodes}
    \cup {QueueEntry("KindType", t) : t \in DOMAIN TypeNodes}

\* The index an identity has now.
IndexOf(e) == Deref(Visitor, e).Index

\* The calls of AddDumpNodeImpl in the history (the rest are the pushes of
\* QueueIncompleteDumpNodes).
AddCalls == {j \in 1..Len(calls) : calls[j].branch # "sweep"}

\* The ids an element refers to in its type, context and members.
RefIds(e) ==
  (IF e.type # 0 THEN {e.type} ELSE {})
    \cup (IF e.context # 0 THEN {e.context} ELSE {})
    \cup Range(e.members)

\* C1 (as claimed): when the dump has ended, every registered identity,
\* declaration or (possibly cv-qualified) type, is the id of exactly one
\* emitted node element.
C1_EveryIdentityEmittedOnce ==
  pc = "done" =>
    \A e \in Registered : Cardinality(ElementsWithId(IndexOf(e))) = 1

\* C2: every AddDumpNode call returned a nonzero index, which is the index
\* the identity still has (so it never changed since), and any two calls for
\* one identity returned the same index, whatever the phase and the
\* completeness asked for.
C2_StableIndex ==
  /\ \A j \in AddCalls :
       /\ calls[j].ret # 0
       /\ calls[j].ret = IndexOf(calls[j].entry)
  /\ \A i, j \in AddCalls :
       calls[i].entry = calls[j].entry => calls[i].ret = calls[j].ret

\* C2 witness: an identity registered complete in the first step of the
\* dump and registered again, incomplete, in the second.
C2_Witness ==
  \E i, j \in AddCalls :
    /\ i < j /\ calls[i].entry = calls[j].entry
    /\ calls[i].complete /\ ~calls[j].complete
    /\ calls[i].require /\ ~calls[j].require

TimesQueued(e) == Cardinality({i \in 1..Len(Queue) : Queue[i] = e})
TimesDispatched(e) == Cardinality({i \in 1..Len(dispatched) : dispatched[i].entry = e})

\* Call j is the first call for its identity.
FirstCall(j) == \A i \in 1..(j-1) : calls[i].entry # calls[j].entry

\* Call j asks, in the first step of the dump, for the completion of an
\* identity that was first registered incomplete in the first step and that
\* no call before j asked to complete.
PendingThenComplete(j) ==
  /\ j \in AddCalls /\ calls[j].complete /\ calls[j].require
  /\ \E i \in 1..(j-1) :
       /\ calls[i].entry = calls[j].entry /\ FirstCall(i)
       /\ ~calls[i].complete /\ calls[i].require
  /\ \A m \in 1..(j-1) : calls[m].entry = calls[j].entry => ~calls[m].complete

\* The ids of the members of declaration block d that are not ignored: what
\* the members attribute of the complete form of d lists.
MemberIds(d) ==
  {DeclNodes[CanonicalDecl(DeclsOf(d)[i])].Index :
     i \in {x \in 1..Len(DeclsOf(d)) :
              /\ ~IgnoredMember(DeclsOf(d)[x])
              /\ CanonicalDecl(DeclsOf(d)[x]) \in DOMAIN DeclNodes}}

\* Dispatch i wrote its declaration in complete form: a container with the
\* members attribute listing all its members.
CompleteForm(i) ==
  LET d == dispatched[i].entry.Decl
      el == OS[dispatched[i].at + 1]
  IN /\ dispatched[i].at < Len(OS)
     /\ el.id = DeclNodes[d].Index
     /\ DeclKind(d) \in {"Namespace", "TranslationUnit"} =>
          /\ el.tag = "Namespace"
          /\ \A x \in 1..Len(DeclsOf(d)) :
               ~IgnoredMember(DeclsOf(d)[x]) =>
                 CanonicalDecl(DeclsOf(d)[x]) \in DOMAIN DeclNodes
          /\ el.members = SetToSeq(MemberIds(d))

C5_CompleteMonotonic ==
  /\ [][ /\ \A d \in DOMAIN DeclNodes :
              DeclNodes[d].Complete =>
                d \in DOMAIN DeclNodes' /\ DeclNodes'[d].Complete
         /\ \A t \in DOMAIN TypeNodes :
              TypeNodes[t].Complete =>
                t \in DOMAIN TypeNodes' /\ TypeNodes'[t].Complete ]_vars
  /\ [](\A i, j \in AddCalls :
          /\ calls[i].entry = calls[j].entry
          /\ calls[i].branch = "upgrade" /\ calls[j].branch = "upgrade"
          => i = j)

\* C5 witness: a node first registered incomplete has become complete, and
\* a complete node was referenced incomplete afterwards and is complete.
C5_Witness ==
  /\ \E i, j \in AddCalls :
       /\ i < j /\ calls[i].entry = calls[j].entry
       /\ FirstCall(i) /\ ~calls[i].complete /\ calls[j].complete
       /\ Deref(Visitor, calls[i].entry).Complete
  /\ \E i, j \in AddCalls :
       /\ i < j /\ calls[i].entry = calls[j].entry
       /\ calls[i].complete /\ ~calls[j].complete
       /\ Deref(Visitor, calls[i].entry).Complete

\* C6: the indices in both registries together are exactly 1..NodeCount,
\* no two identities share one, and the first call for an identity returns
\* one more than the number of identities registered before it, declaration
\* or type.
C6_SharedCounter ==
  /\ {IndexOf(e) : e \in Registered} = 1..NodeCount
  /\ \A e1, e2 \in Registered : IndexOf(e1) = IndexOf(e2) => e1 = e2
  /\ \A j \in AddCalls :
       FirstCall(j) =>
         calls[j].ret = Cardinality({calls[i].entry : i \in 1..(j-1)}) + 1

\* C6 witness: a declaration registered first has index 1 and a type
\* registered next has index 2.
C6_Witness ==
  /\ \E d \in DOMAIN DeclNodes : DeclNodes[d].Index = 1
  /\ \E t \in DOMAIN TypeNodes : TypeNodes[t].Index = 2

\* The dispatches of typedefs.
TypedefDispatches ==
  {i \in 1..Len(dispatched) :
     /\ dispatched[i].entry.Kind = "KindDecl"
     /\ DeclKind(dispatched[i].entry.Decl) = "Typedef"}

\* The element dispatch i wrote (for a dispatch that wrote one).
ElementOf(i) == OS[dispatched[i].at + 1]

\* The type the typedef of dispatch i names.
TypeAt(i) == TypeOf[dispatched[i].entry.Decl]

\* The letters c, v, r of the qualifiers of t, in that order.
Letters(t) ==
  LET Has(x) == (x = "c" /\ t.c) \/ (x = "v" /\ t.v) \/ (x = "r" /\ t.r)
  IN SelectSeq(<<"c", "v", "r">>, Has)

\* C7: the type attribute of a typedef is the index of the registry entry
\* of the unqualified form of its type, followed by the letters of its
\* qualifiers in the order c, v, r (none for an unqualified type); so const
\* T and volatile const T print one id, with the suffixes c and cv.
C7_QualifierSuffix ==
  \A i \in TypedefDispatches :
    LET t == TypeAt(i)
        u == LocalUnqualifiedType(t)
    IN /\ u \in DOMAIN TypeNodes
       /\ ElementOf(i).type = TypeNodes[u].Index
       /\ ElementOf(i).type # 0
       /\ ElementOf(i).quals = Letters(t)
       /\ (t.c /\ ~t.v /\ ~t.r) => ElementOf(i).quals = <<"c">>
       /\ (t.c /\ t.v /\ ~t.r) => ElementOf(i).quals = <<"c", "v">>
       /\ ~HasLocalQualifiers(t) => ElementOf(i).quals = <<>>

\* C7 witness: typedefs of const T and of volatile const T written with the
\* same id and the suffixes c and cv.
C7_Witness ==
  \E i, j \in TypedefDispatches :
    /\ TypeAt(i).c /\ ~TypeAt(i).v /\ ~TypeAt(i).r
    /\ TypeAt(j).c /\ TypeAt(j).v /\ ~TypeAt(j).r
    /\ ElementOf(i).type = ElementOf(j).type
    /\ ElementOf(i).quals = <<"c">> /\ ElementOf(j).quals = <<"c", "v">>

IsPush(c) == c.pushed
Pushes == SelectSeq(calls, IsPush)

\* Dispatch i wrote an element.
Emits(i) ==
  /\ dispatched[i].at < Len(OS)
  /\ i < Len(dispatched) => dispatched[i+1].at > dispatched[i].at
  /\ dispatched[i].at + 1 \in NodeElements

C10_PhaseTransition ==
  /\ [][ RequireComplete' # RequireComplete =>
           /\ RequireComplete /\ ~RequireComplete'
           /\ Queue = <<>> /\ pc = "complete" /\ pc' = "incomplete" ]_vars
  /\ [](RequireComplete <=> pc \in {"start", "complete"})
  /\ [][ (pc = "incomplete" /\ pc' # pc) => (Queue = <<>> /\ pc' = "files") ]_vars
  /\ [][ (pc = "files" \/ pc = "done") =>
           ( /\ Queue = <<>> /\ Queue' = <<>>
             /\ dispatched' = dispatched
             /\ NodeElements' = NodeElements
             /\ OS = SubSeq(OS', 1, Len(OS)) ) ]_vars

\* C10 witness: a finished dump that dispatched nodes in both steps and
\* wrote File elements after them.
C10_Witness ==
  /\ pc = "done" /\ ~RequireComplete
  /\ \E i, j \in 1..Len(dispatched) : dispatched[i].require /\ ~dispatched[j].require
  /\ \E i \in 1..Len(OS) : OS[i].tag = "File"

(***************************************************************************)
(* HandleTranslationUnit is one sequential call: until it has returned,   *)
(* it takes its next step.                                                 *)
(***************************************************************************)

\* The test of the step that comes next at each position: one of them holds
\* wherever the call has not returned.
CanStep ==
  \/ pc = "start"
  \/ pc \in {"complete", "incomplete"} /\ Queue # <<>>
  \/ pc \in {"complete", "incomplete"} /\ Queue = <<>>
  \/ pc = "files" /\ FileQueue # <<>>
  \/ pc = "files" /\ FileQueue = <<>>

\* The call takes a step: every step of Next is one.
Step == pc # "done" /\ steps' = steps + 1

FairSpec == Init /\ [][Next]_vars /\ WF_steps(Step)

\* The dump has ended: both queues are empty and the closing of the
\* document is the last thing written, after its opening.
DumpEnded ==
  /\ pc = "done"
  /\ Queue = <<>> /\ FileQueue = <<>>
  /\ Len(OS) >= 2
  /\ OS[Len(OS)].tag = "/GCC_XML"
  /\ Cardinality({i \in 1..Len(OS) : OS[i].tag = "GCC_XML"}) = 1
  /\ Cardinality({i \in 1..Len(OS) : OS[i].tag = "/GCC_XML"}) = 1

\* C11: whatever the start names and the types, HandleTranslationUnit comes
\* to its end, and at its end the node queue and the file queue are empty
\* and the closing of the document has been written; every push is matched
\* by one dispatch, so no entry is left behind or dispatched for ever.
C11_Terminates ==
  /\ <>(pc = "done")
  /\ [](pc # "done" => CanStep)
  /\ [][Step]_vars
  /\ [](pc = "done" => DumpEnded)
  /\ [](pc = "done" => Len(dispatched) = Len(Pushes))
  /\ []((pc = "files" \/ pc = "done") => Queue = <<>>)

\* C11 witness: a dump has ended in which a namespace lists a member whose
\* context attribute refers back to the namespace, nodes were written in
\* both steps and a file was written.
C11_Witness ==
  /\ DumpEnded
  /\ \E i, j \in NodeElements :
       /\ OS[i].context = OS[j].id
       /\ OS[i].id \in Range(OS[j].members)
  /\ \E i, j \in 1..Len(dispatched) : dispatched[i].require /\ ~dispatched[j].require
  /\ \E i \in 1..Len(OS) : OS[i].tag = "File"

\* The positions in OS of the File elements.
FileElements == {i \in 1..Len(OS) : OS[i].tag = "File"}

\* The position in OS of the first node element that refers to the file of
\* index n (0 when none does).
FirstReference(n) ==
  LET Refs == {i \in NodeElements : OS[i].file = n}
  IN IF Refs = {} THEN 0 ELSE CHOOSE i \in Refs : \A j \in Refs : i <= j

\* C12: no File element is written before the node drains have ended, so
\* every File element follows every node element; when the dump has ended
\* each file referenced by a location has exactly one File element, carrying
\* its index and name, and there is no other File element; the File elements
\* come in ascending index f1, f2, ..., which is the order in which the
\* files were first referenced by the node elements.
C12_FileElementsLast ==
  /\ pc \in {"start", "complete", "incomplete"} => FileElements = {}
  /\ \A i \in FileElements : \A j \in NodeElements : j < i
  /\ pc = "done" =>
       /\ \A f \in DOMAIN FileNodes :
            Cardinality({i \in FileElements :
                           OS[i].id = FileNodes[f] /\ OS[i].name = <<f>>}) = 1
       /\ Cardinality(FileElements) = Cardinality(DOMAIN FileNodes)
       /\ {OS[i].id : i \in FileElements} = 1..FileCount
       /\ \A i \in NodeElements :
            OS[i].file # 0 => \E j \in FileElements : OS[j].id = OS[i].file
       /\ \A i, j \in FileElements :
            i < j => /\ OS[i].id < OS[j].id
                     /\ FirstReference(OS[i].id) # 0
                     /\ FirstReference(OS[i].id) < FirstReference(OS[j].id)

\* C12 witness: a dump has ended with two File elements, one of them for a
\* file that two node elements refer to.
C12_Witness ==
  /\ pc = "done"
  /\ Cardinality(FileElements) = 2
  /\ \E i, j \in NodeElements : i # j /\ OS[i].file # 0 /\ OS[i].file = OS[j].file

\* The declarations directly in the translation unit that are neither an
\* injected class name nor an access specifier, as identities.
TopLevelDecls ==
  {CanonicalDecl(DeclsOf("TU")[i]) :
     i \in {x \in 1..Len(DeclsOf("TU")) : ~IgnoredMember(DeclsOf("TU")[x])}}

\* C13: with no start name, the translation unit is the first and, until
\* the first dispatch, the only node registered: complete, index 1, alone on
\* the queue.  It is dispatched first and written as the Namespace element
\* "::" of id 1, whose members attribute lists, in ascending order, exactly
\* the indices of the declarations directly in the translation unit (one
\* index for a namespace declared twice), none of an injected class name or
\* an access specifier.
C13_EmptyStartDumpsAll ==
  (StartNames = <<>> /\ pc # "start") =>
    LET tu == QueueEntry("KindDecl", "TU")
    IN /\ Len(calls) >= 1
       /\ calls[1].entry = tu /\ calls[1].complete /\ calls[1].branch = "new"
       /\ calls[1].ret = 1 /\ calls[1].pushed
       /\ DeclNodes["TU"] = [Index |-> 1, Complete |-> TRUE]
       /\ Len(dispatched) = 0 => (Registered = {tu} /\ Queue = <<tu>>)
       /\ Len(dispatched) >= 1 =>
            /\ dispatched[1].entry = tu /\ dispatched[1].Complete
            /\ OS[2].tag = "Namespace" /\ OS[2].id = 1
            /\ OS[2].name = <<":", ":">>
            /\ TopLevelDecls \subseteq DOMAIN DeclNodes
            /\ OS[2].members = SetToSeq({DeclNodes[d].Index : d \in TopLevelDecls})
            /\ \A d \in DOMAIN DeclNodes :
                 DeclNodes[d].Index \in Range(OS[2].members) =>
                   /\ DeclContextOf(d) = "TU"
                   /\ ~IgnoredMember(d)
            /\ ElementsWithId(1) = {2}

\* C13 witness: a dump without start names has ended and its root element
\* lists four members for the six declarations of the translation unit.
C13_Witness ==
  /\ StartNames = <<>> /\ pc = "done"
  /\ OS[2].tag = "Namespace" /\ OS[2].id = 1
  /\ Len(OS[2].members) = 4
  /\ Len(DeclsOf("TU")) = 6

\* The qualified name of a named declaration: the names of the contexts
\* around it, outermost first, and its own, joined by "::".
RECURSIVE QualifiedName(_)
QualifiedName(d) ==
  IF DeclContextOf(d) = "TU" THEN DeclName(d)
  ELSE QualifiedName(DeclContextOf(d)) \o <<":", ":">> \o DeclName(d)

\* The entities a start name names: the named declarations of that
\* qualified name.
Named(name) ==
  {CanonicalDecl(d) : d \in {x \in Decls \ {"TU", "AS"} : QualifiedName(x) = name}}

\* The entities the start names name.
StartSet == UNION {Named(StartNames[i]) : i \in 1..Len(StartNames)}

\* Where the start nodes have been added and nothing is dispatched yet.
StartsResolved == pc = "complete" /\ Len(dispatched) = 0 /\ StartNames # <<>>

\* C14: when the start names have been looked up, the registry holds
\* exactly the entities they name, each complete, with an index, once on
\* the queue, and every call asked for completion; no type is registered.
\* So for the single start name N::C the context N, the other members of N
\* and the members of C are not in the registry.
C14_StartRegistersMatchesOnly ==
  StartsResolved =>
    /\ DOMAIN DeclNodes = StartSet
    /\ TypeNodes = <<>>
    /\ \A d \in DOMAIN DeclNodes :
         /\ DeclNodes[d].Complete /\ DeclNodes[d].Index # 0
         /\ TimesQueued(QueueEntry("KindDecl", d)) = 1
    /\ Len(Queue) = Cardinality(StartSet)
    /\ \A j \in 1..Len(calls) : calls[j].complete /\ calls[j].branch # "sweep"
    /\ Len(StartNames) = 1 =>
         \A d \in StartSet : \A x \in Decls :
           ( \/ CanonicalDecl(x) = CanonicalDecl(DeclContextOf(d))
             \/ /\ CanonicalDecl(DeclContextOf(x)) = CanonicalDecl(DeclContextOf(d))
                /\ CanonicalDecl(x) # d
             \/ CanonicalDecl(DeclContextOf(x)) = d )
           => CanonicalDecl(x) \notin DOMAIN DeclNodes

\* C14 witness: the start name N::M has been looked up: M alone is
\* registered, complete, and N, its member U and M's member T are not.
C14_Witness ==
  /\ StartsResolved
  /\ StartNames = << <<"N", ":", ":", "M">> >>
  /\ DOMAIN DeclNodes = {"M"} /\ DeclNodes["M"].Complete
  /\ Queue = <<QueueEntry("KindDecl", "M")>>

\* The start names that name nothing.
Misses == {i \in 1..Len(StartNames) : Named(StartNames[i]) = {}}

\* C15: a start name that names nothing, by its first segment or by a later
\* one, causes no AddDumpNode call: when the start names have been looked
\* up there is one call for each start name that names something and none
\* for the others, and the registry is what the names that match give.  When
\* no start name of a non-empty list names anything, nothing is ever
\* registered, queued or dispatched, no file is referenced, and the output
\* at the end is the opening and the closing of the document alone.
C15_MissAddsNothing ==
  /\ StartsResolved =>
       /\ Len(calls) = Len(StartNames) - Cardinality(Misses)
       /\ NodeCount = Cardinality(StartSet)
       /\ Len(Queue) = Cardinality(StartSet)
       /\ \A i \in Misses : \A j \in 1..Len(calls) :
            QualifiedName(calls[j].entry.Decl) # StartNames[i]
  /\ (StartNames # <<>> /\ StartSet = {}) =>
       /\ DeclNodes = <<>> /\ TypeNodes = <<>> /\ FileNodes = <<>>
       /\ NodeCount = 0 /\ FileCount = 0
       /\ Queue = <<>> /\ FileQueue = <<>>
       /\ calls = <<>> /\ dispatched = <<>>
       /\ NodeElements = {} /\ FileElements = {}
       /\ pc = "done" => OS = <<Element("GCC_XML"), Element("/GCC_XML")>>

\* C15 witness: a dump has ended whose two start names are different and
\* name nothing, one of them by a segment after the first.
C15_Witness ==
  /\ pc = "done"
  /\ Len(StartNames) = 2 /\ StartNames[1] # StartNames[2]
  /\ Misses = {1, 2}
  /\ \E i \in 1..2 : Named(SubstrTo(StartNames[i], Find(StartNames[i]))) # {}
  /\ Len(OS) = 2

\* The declaration kinds OutputDecl has an output routine of their own for;
\* no type class has one.
HasOutputRoutine(e) ==
  /\ e.Kind = "KindDecl"
  /\ DeclKind(e.Decl) \in {"TranslationUnit", "Namespace", "Typedef"}

\* The number of elements dispatch i wrote.
Written(i) ==
  (IF i < Len(dispatched) THEN dispatched[i+1].at
   ELSE Cardinality({k \in 1..Len(OS) :
                       OS[k].tag \notin {"File", "/GCC_XML"}}))
    - dispatched[i].at

\* Dispatch i wrote one Unimplemented element with the index of its node.
Placeholder(i) ==
  /\ Written(i) = 1
  /\ ElementOf(i).tag = "Unimplemented"
  /\ ElementOf(i).id = IndexOf(dispatched[i].entry)
  /\ ElementOf(i).id # 0

\* C16 (as claimed): every dispatched node whose kind has no output routine
\* of its own, a declaration or a type, qualified or not, has written
\* exactly one Unimplemented element carrying its index; none is dropped
\* without an element.
C16_PlaceholderForEveryKind ==
  \A i \in 1..Len(dispatched) :
    ~HasOutputRoutine(dispatched[i].entry) => Placeholder(i)

\* C16, for what is written: a dispatched declaration of a kind without an
\* output routine, and a dispatched type without qualifiers, wrote exactly
\* one Unimplemented element carrying its index (the kind name for a
\* declaration, the type class for a type), and the entries queued behind
\* it are dispatched in their turn; a dispatched qualified type wrote
\* nothing.
C16_PlaceholderUnlessQualified ==
  /\ \A i \in 1..Len(dispatched) :
       LET e == dispatched[i].entry
       IN /\ (~HasOutputRoutine(e) /\ ~(e.Kind = "KindType" /\ HasLocalQualifiers(e.Type)))
               => /\ Placeholder(i)
                  /\ IF e.Kind = "KindDecl"
                     THEN ElementOf(i).kind = DeclKind(e.Decl)
                     ELSE ElementOf(i).type_class = e.Type.base
          /\ (e.Kind = "KindType" /\ HasLocalQualifiers(e.Type)) => Written(i) = 0
  /\ pc \in {"files", "done"} => Len(dispatched) = Len(Pushes)

\* C16 witness: a dump has ended in which a variable, a class and a type
\* were written as Unimplemented elements and nodes were dispatched after
\* each of them.
C16_Witness ==
  /\ pc = "done"
  /\ \E i, j, k \in 1..(Len(dispatched) - 1) :
       /\ dispatched[i].entry = QueueEntry("KindDecl", "V")
       /\ dispatched[j].entry = QueueEntry("KindDecl", "C")
       /\ dispatched[k].entry.Kind = "KindType"
       /\ Placeholder(i) /\ Placeholder(j) /\ Placeholder(k)

\* The dispatches of declarations.
DeclDispatches == {i \in 1..Len(dispatched) : dispatched[i].entry.Kind = "KindDecl"}

\* C17: the registry is keyed by entities: every key of DeclNodes and every
\* declaration queued or dispatched is a canonical declaration, so the
\* declarations of one entity have one entry and one index between them.
\* A context attribute carries the index of the entity of the context,
\* whichever of its declarations the member sits in; a members attribute
\* lists an entity once, however many of its declarations are members; and
\* when the dump has ended each registered entity has been dispatched once
\* and has exactly one element.
C17_RedeclarationsShareEntry ==
  /\ \A d \in DOMAIN DeclNodes : CanonicalDecl(d) = d
  /\ \A j \in 1..Len(calls) :
       calls[j].entry.Kind = "KindDecl" =>
         CanonicalDecl(calls[j].entry.Decl) = calls[j].entry.Decl
  /\ \A i \in DeclDispatches :
       LET d == dispatched[i].entry.Decl
           dc == CanonicalDecl(DeclContextOf(d))
       IN DeclKind(d) \in {"Namespace", "Typedef"} =>
            /\ dc \in DOMAIN DeclNodes
            /\ ElementOf(i).context = DeclNodes[dc].Index
  /\ \A i \in NodeElements : \A x, y \in 1..Len(OS[i].members) :
       x < y => OS[i].members[x] < OS[i].members[y]
  /\ \A i \in DeclDispatches :
       (DeclKind(dispatched[i].entry.Decl) = "TranslationUnit" /\ dispatched[i].Complete)
         => \A m \in Range(DeclsOf("TU")) :
              Cardinality({x \in 1..Len(ElementOf(i).members) :
                 ElementOf(i).members[x] = DeclNodes[CanonicalDecl(m)].Index}) = 1
  /\ pc = "done" =>
       \A d \in DOMAIN DeclNodes :
         /\ TimesDispatched(QueueEntry("KindDecl", d)) = 1
         /\ Cardinality(ElementsWithId(DeclNodes[d].Index)) = 1

\* C17 witness: a dump has ended in which namespace N was a start node
\* (found by its second block), members of its two blocks were written with
\* the same context id, and one element has that id.
C17_Witness ==
  /\ pc = "done"
  /\ Len(StartNames) >= 1 /\ StartNames[1] = <<"N">>
  /\ \E i, j \in DeclDispatches :
       LET di == dispatched[i].entry.Decl
           dj == dispatched[j].entry.Decl
       IN /\ DeclContextOf(di) # DeclContextOf(dj)
          /\ CanonicalDecl(DeclContextOf(di)) = CanonicalDecl(DeclContextOf(dj))
          /\ ElementOf(i).context # 0
          /\ ElementOf(i).context = ElementOf(j).context
          /\ Cardinality(ElementsWithId(ElementOf(i).context)) = 1

\* C18: once RequireComplete is cleared, no AddDumpNode call asks for
\* completion and none upgrades; no Complete flag changes and a node that
\* is registered from then on is registered incomplete; every node
\* dispatched is incomplete and its element, if it writes one, has no
\* members attribute; and the queue receives only the nodes of the sweep
\* and nodes registered for the first time.
C18_PhaseTwoNeverCompletes ==
  /\ [](\A j \in AddCalls :
          ~calls[j].require =>
            /\ ~calls[j].complete
            /\ calls[j].branch \in {"new", "seen"})
  /\ [](\A j \in 1..Len(calls) :
          (~calls[j].require /\ calls[j].pushed) =>
            calls[j].branch \in {"sweep", "new"})
  /\ [][ ~RequireComplete =>
           /\ \A d \in DOMAIN DeclNodes' :
                DeclNodes'[d].Complete =
                  (IF d \in DOMAIN DeclNodes THEN DeclNodes[d].Complete ELSE FALSE)
           /\ \A t \in DOMAIN TypeNodes' :
                TypeNodes'[t].Complete =
                  (IF t \in DOMAIN TypeNodes THEN TypeNodes[t].Complete ELSE FALSE) ]_vars
  /\ [](\A i \in 1..Len(dispatched) :
          ~dispatched[i].require =>
            /\ ~dispatched[i].Complete
            /\ Written(i) <= 1
            /\ Written(i) = 1 => ElementOf(i).members = <<>>)

\* C18 witness: a dump has ended in whose second step a node was
\* registered for the first time, a node already registered incomplete was
\* referenced again, and a namespace that has members was written without
\* a members attribute.
C18_Witness ==
  /\ pc = "done"
  /\ \E j \in AddCalls : ~calls[j].require /\ calls[j].branch = "new"
  /\ \E j \in AddCalls :
       /\ ~calls[j].require /\ calls[j].branch = "seen"
       /\ ~Deref(Visitor, calls[j].entry).Complete
  /\ \E i \in DeclDispatches :
       /\ ~dispatched[i].require
       /\ DeclKind(dispatched[i].entry.Decl) = "Namespace"
       /\ DeclsOf(dispatched[i].entry.Decl) # <<>>
       /\ ElementOf(i).tag = "Namespace" /\ ElementOf(i).members = <<>>

\* The pushes of identity e on the node queue so far, of any origin.
PushesOf(e) == {j \in 1..Len(calls) : calls[j].pushed /\ calls[j].entry = e}

\* C19: at every moment each registered identity has been pushed on the
\* node queue at most once, creation, upgrade and sweep counted together,
\* and is on the queue or dispatched as many times as it was pushed; so no
\* identity is dispatched twice and no index is carried by two elements: a
\* node written incomplete is not written again complete, nor the reverse.
\* When the dump has ended every identity has been pushed exactly once.
C19_PushedAtMostOnce ==
  /\ \A e \in Registered :
       /\ Cardinality(PushesOf(e)) <= 1
       /\ TimesQueued(e) + TimesDispatched(e) = Cardinality(PushesOf(e))
       /\ Cardinality(ElementsWithId(IndexOf(e))) <= 1
  /\ \A i, j \in 1..Len(dispatched) :
       dispatched[i].entry = dispatched[j].entry => i = j
  /\ \A j \in 1..Len(calls) : calls[j].entry \in Registered
  /\ \A i \in 1..Len(Queue) : Queue[i] \in Registered
  /\ pc \in {"incomplete", "files", "done"} =>
       \A e \in Registered : Cardinality(PushesOf(e)) = 1

\* C19 witness: a dump has ended in which nodes were pushed at their
\* creation, by an upgrade and by the sweep, one namespace was written in
\* full and another as a stub, and a node was referenced again after it
\* was pushed.
C19_Witness ==
  /\ pc = "done"
  /\ \A b \in {"new", "upgrade", "sweep"} :
       \E j \in 1..Len(calls) : calls[j].pushed /\ calls[j].branch = b
  /\ \E i, j \in DeclDispatches :
       /\ ElementOf(i).tag = "Namespace" /\ ElementOf(j).tag = "Namespace"
       /\ dispatched[i].Complete /\ ElementOf(i).members # <<>>
       /\ ~dispatched[j].Complete /\ ElementOf(j).members = <<>>
  /\ \E j, k \in 1..Len(calls) :
       /\ j < k /\ calls[j].entry = calls[k].entry
       /\ calls[j].pushed /\ calls[k].branch = "seen"

\* The visitor s differs from the present one in nothing but the history
\* of calls and the value returned.
SameVisitor(s) ==
  /\ s.NodeCount = NodeCount /\ s.FileCount = FileCount
  /\ s.RequireComplete = RequireComplete
  /\ s.DeclNodes = DeclNodes /\ s.TypeNodes = TypeNodes
  /\ s.FileNodes = FileNodes
  /\ s.Queue = Queue /\ s.FileQueue = FileQueue
  /\ s.OS = OS /\ s.dispatched = dispatched

\* C20: in every state of the dump, in either step, AddDumpNode for an
\* identity already registered, asking for no completion, or asking for the
\* completion of a node that is complete, returns the node's index and
\* leaves the index, the Complete flag, NodeCount, both registries and the
\* node queue as they are; the same holds through any declaration of a
\* registered entity.  Every call of the history that found its node so
\* pushed nothing and returned the index the node has.
C20_SeenCallChangesNothing ==
  /\ \A e \in Registered : \A c \in BOOLEAN :
       (~c \/ Deref(Visitor, e).Complete) =>
         LET s == AddDumpNodeImpl(Visitor, e.Kind, KeyOf(e), c)
         IN /\ SameVisitor(s)
            /\ s.ret = IndexOf(e) /\ s.ret # 0
            /\ Deref(s, e) = Deref(Visitor, e)
  /\ \A d \in Decls : \A c \in BOOLEAN :
       ( /\ CanonicalDecl(d) \in DOMAIN DeclNodes
         /\ ~c \/ DeclNodes[CanonicalDecl(d)].Complete ) =>
         LET s == AddDumpNodeDecl(Visitor, d, c)
         IN SameVisitor(s) /\ s.ret = DeclNodes[CanonicalDecl(d)].Index
  /\ \A t \in DOMAIN TypeNodes : \A c \in BOOLEAN :
       (~c \/ TypeNodes[t].Complete) =>
         LET s == AddDumpNodeType(Visitor, t, c)
         IN SameVisitor(s) /\ s.ret = TypeNodes[t].Index
  /\ \A j \in AddCalls :
       calls[j].branch = "seen" =>
         /\ ~calls[j].pushed
         /\ calls[j].ret = IndexOf(calls[j].entry)
         /\ calls[j].complete => Deref(Visitor, calls[j].entry).Complete

\* C20 witness: the dump is in its second step with entries on the queue,
\* complete and incomplete nodes in the registry, and in its history a call
\* asking for the completion of a complete node and a call of the second
\* step asking for no completion of a node already registered.
C20_Witness ==
  /\ pc = "incomplete" /\ Queue # <<>>
  /\ \E e1, e2 \in Registered :
       Deref(Visitor, e1).Complete /\ ~Deref(Visitor, e2).Complete
  /\ \E j \in AddCalls :
       calls[j].branch = "seen" /\ calls[j].complete /\ calls[j].require
  /\ \E j \in AddCalls :
       calls[j].branch = "seen" /\ ~calls[j].complete /\ ~calls[j].require

\* The identities that could be registered and are not: the canonical
\* declarations and the types without a registry entry.
Unseen ==
  {QueueEntry("KindDecl", d) : d \in {CanonicalDecl(x) : x \in Decls} \ DOMAIN DeclNodes}
    \cup {QueueEntry("KindType", t) : t \in QualTypes \ DOMAIN TypeNodes}

\* The call of the history that created identity e.
CreatedBy(j, e) == j \in AddCalls /\ calls[j].entry = e /\ calls[j].branch = "new"

\* C21: in every state, AddDumpNode for an identity not yet registered
\* gives it the index NodeCount + 1 and makes that the new NodeCount,
\* stores the completeness asked for, appends the identity to the queue if
\* completion is asked for or RequireComplete is false, leaves the queue
\* alone otherwise, and touches no other node, no file and no output.  In the
\* history every creating call pushed exactly in those cases; and a node
\* created incomplete while RequireComplete held, with no upgrade and no
\* sweep since, is on the queue nowhere, has not been dispatched and has no
\* element.
C21_NewNode ==
  /\ \A e \in Unseen : \A c \in BOOLEAN :
       LET s == AddDumpNodeImpl(Visitor, e.Kind, KeyOf(e), c)
           push == c \/ ~RequireComplete
       IN /\ s.ret = NodeCount + 1 /\ s.NodeCount = NodeCount + 1
          /\ Deref(s, e) = [Index |-> NodeCount + 1, Complete |-> c]
          /\ s.Queue = IF push THEN Append(Queue, e) ELSE Queue
          /\ \A x \in Registered : Deref(s, x) = Deref(Visitor, x)
          /\ DOMAIN s.DeclNodes =
               DOMAIN DeclNodes \cup (IF e.Kind = "KindDecl" THEN {e.Decl} ELSE {})
          /\ DOMAIN s.TypeNodes =
               DOMAIN TypeNodes \cup (IF e.Kind = "KindType" THEN {e.Type} ELSE {})
          /\ s.RequireComplete = RequireComplete
          /\ s.FileCount = FileCount /\ s.FileNodes = FileNodes
          /\ s.FileQueue = FileQueue /\ s.OS = OS
  /\ \A j \in AddCalls :
       calls[j].branch = "new" =>
         /\ calls[j].pushed <=> (calls[j].complete \/ ~calls[j].require)
         /\ FirstCall(j)
  /\ \A e \in Registered : \A j \in 1..Len(calls) :
       ( /\ CreatedBy(j, e) /\ ~calls[j].complete /\ calls[j].require
         /\ PushesOf(e) = {} )
       => /\ TimesQueued(e) = 0 /\ TimesDispatched(e) = 0
          /\ ElementsWithId(IndexOf(e)) = {}
          /\ ~Deref(Visitor, e).Complete
          /\ pc = "complete"

\* C21 witness: the dump has ended; in its first step a node was created
\* complete and pushed and another was created incomplete and not pushed,
\* and in its second step a node was created incomplete and pushed.
C21_Witness ==
  /\ pc = "done"
  /\ \E j \in AddCalls :
       calls[j].branch = "new" /\ calls[j].complete /\ calls[j].require /\ calls[j].pushed
  /\ \E j \in AddCalls :
       calls[j].branch = "new" /\ ~calls[j].complete /\ calls[j].require /\ ~calls[j].pushed
  /\ \E j \in AddCalls :
       calls[j].branch = "new" /\ ~calls[j].complete /\ ~calls[j].require /\ calls[j].pushed

\* The registered identities whose node is incomplete.
IncompleteNow == {e \in Registered : ~Deref(Visitor, e).Complete}

\* The sweep records of the history.
SweepCalls == {j \in 1..Len(calls) : calls[j].branch = "sweep"}

\* C22: the step that clears RequireComplete leaves on the queue, which was
\* empty, every registered identity whose node is incomplete, each once,
\* and no other, and changes no node, no index and no output.  Every node
\* it pushed is dispatched in the second step, still incomplete, and writes
\* one element; so at the end every node created incomplete in the first
\* step and not upgraded has been written, in the second step.
C22_SweepQueuesIncomplete ==
  /\ [][ (pc = "complete" /\ pc' = "incomplete") =>
           /\ Queue = <<>>
           /\ Range(Queue') = IncompleteNow
           /\ Len(Queue') = Cardinality(IncompleteNow)
           /\ \A i \in 1..Len(Queue') : ~Deref(Visitor, Queue'[i]).Complete
           /\ DeclNodes' = DeclNodes /\ TypeNodes' = TypeNodes
           /\ NodeCount' = NodeCount /\ OS' = OS
           /\ \A j \in 1..Len(calls') :
                j > Len(calls) =>
                  calls'[j].branch = "sweep" /\ calls'[j].pushed ]_vars
  /\ [](\A i, j \in SweepCalls : calls[i].entry = calls[j].entry => i = j)
  /\ [](\A j \in SweepCalls :
          /\ ~calls[j].require
          /\ ~Deref(Visitor, calls[j].entry).Complete)
  /\ [](pc = "done" =>
          \A e \in Registered : \A j \in 1..Len(calls) :
            (CreatedBy(j, e) /\ ~calls[j].complete /\ calls[j].require
               /\ ~Deref(Visitor, e).Complete)
            => /\ \E k \in SweepCalls : calls[k].entry = e
               /\ \E i \in 1..Len(dispatched) :
                    /\ dispatched[i].entry = e
                    /\ ~dispatched[i].require /\ ~dispatched[i].Complete
                    /\ Written(i) = 1
                    /\ ElementOf(i).id = IndexOf(e)
               /\ Cardinality(ElementsWithId(IndexOf(e))) = 1)

\* C22 witness: a dump has ended whose sweep pushed two nodes while
\* complete nodes were registered, and both were written in the second
\* step.
C22_Witness ==
  /\ pc = "done"
  /\ Cardinality(SweepCalls) >= 2
  /\ \E e \in Registered : Deref(Visitor, e).Complete
  /\ \A j \in SweepCalls :
       \E i \in 1..Len(dispatched) :
         /\ dispatched[i].entry = calls[j].entry
         /\ ~dispatched[i].require /\ Written(i) = 1

\* The dispatches that wrote a namespace or the translation unit in
\* complete form.
CompleteContainers ==
  {i \in DeclDispatches :
     /\ DeclKind(dispatched[i].entry.Decl) \in {"Namespace", "TranslationUnit"}
     /\ dispatched[i].Complete}

\* The direct children of entity d that PrintMembersAttribute does not
\* ignore: in every declaration of d, or in the declaration blk alone.
ChildrenOf(d) ==
  {x \in Decls : CanonicalDecl(DeclContextOf(x)) = d /\ ~IgnoredMember(x)}
ChildrenIn(blk) == {x \in Decls : DeclContextOf(x) = blk /\ ~IgnoredMember(x)}

\* Child x has been registered complete and pushed in the first step, by
\* its creation or by an upgrade, and is written in the first step.
RegisteredComplete(x) ==
  LET e == QueueEntry("KindDecl", CanonicalDecl(x))
  IN /\ e \in Registered
     /\ Deref(Visitor, e).Complete
     /\ \E j \in PushesOf(e) :
          /\ calls[j].complete /\ calls[j].require
          /\ calls[j].branch \in {"new", "upgrade"}
     /\ TimesQueued(e) + TimesDispatched(e) = 1
     /\ \A i \in 1..Len(dispatched) :
          dispatched[i].entry = e => dispatched[i].require /\ dispatched[i].Complete
     /\ pc \in {"incomplete", "files", "done"} => TimesDispatched(e) = 1

\* C23 (as claimed): once a container has been written in complete form,
\* every direct child of it that is not skipped is registered, complete,
\* pushed by its creation or its upgrade, and written in the first step.
C23_CompleteContainerCompletesChildren ==
  \A i \in CompleteContainers :
    \A x \in ChildrenOf(dispatched[i].entry.Decl) : RegisteredComplete(x)

\* C23, for the first declaration of the container: once a container has
\* been written in complete form, every child that sits in its canonical
\* declaration and is not skipped is registered, complete, pushed by its
\* creation or its upgrade, and written in the first step; the children in
\* a later declaration of a reopened namespace are not looked at.
C23_FirstBlockChildrenComplete ==
  \A i \in CompleteContainers :
    /\ \A x \in ChildrenIn(dispatched[i].entry.Decl) : RegisteredComplete(x)
    /\ dispatched[i].entry.Decl = CanonicalDecl(dispatched[i].entry.Decl)
    /\ ElementOf(i).members =
         SetToSeq({DeclNodes[CanonicalDecl(x)].Index :
                     x \in ChildrenIn(dispatched[i].entry.Decl)})

\* C23 witness: a namespace has been written in complete form of whose
\* children one was a pending stub, upgraded by it, and one was created by
\* it, and both have since been written complete.
C23_Witness ==
  \E i \in CompleteContainers :
    \E x, y \in ChildrenIn(dispatched[i].entry.Decl) :
      /\ \E j \in PushesOf(QueueEntry("KindDecl", CanonicalDecl(x))) :
           calls[j].branch = "upgrade"
      /\ \E j \in PushesOf(QueueEntry("KindDecl", CanonicalDecl(y))) :
           calls[j].branch = "new"
      /\ TimesDispatched(QueueEntry("KindDecl", CanonicalDecl(x))) = 1
      /\ TimesDispatched(QueueEntry("KindDecl", CanonicalDecl(y))) = 1

\* The indices of the registered identities among the declarations D.
IndicesOf(D) ==
  {DeclNodes[CanonicalDecl(x)].Index : x \in {y \in D : CanonicalDecl(y) \in DOMAIN DeclNodes}}

\* A sequence of numbers in strictly ascending order (so without repeats).
Ascending(q) == \A x, y \in 1..Len(q) : x < y => q[x] < q[y]

\* C24 (as claimed): the members attribute of a container written in
\* complete form is the strictly ascending list, without repeats, of the
\* indices of its direct children that are not skipped: every such child
\* that has an index is listed, and nothing else is.
C24_MembersListChildren ==
  \A i \in CompleteContainers :
    /\ Ascending(ElementOf(i).members)
    /\ Range(ElementOf(i).members) = IndicesOf(ChildrenOf(dispatched[i].entry.Decl))

\* C24, for the first declaration of the container: the members attribute
\* is the strictly ascending list, without repeats, of the indices of the
\* children in the canonical declaration of the container that are not
\* skipped, whatever the order in which they are enumerated and were
\* registered, a child declared twice being listed once; the attribute is
\* left out when there is no such child.
C24_MembersSortedSet ==
  /\ \A i \in NodeElements : Ascending(OS[i].members)
  /\ \A i \in CompleteContainers :
       LET d == dispatched[i].entry.Decl
       IN /\ Range(ElementOf(i).members) = IndicesOf(ChildrenIn(d))
          /\ ChildrenIn(d) # {} => Cardinality(IndicesOf(ChildrenIn(d))) =
               Cardinality({CanonicalDecl(x) : x \in ChildrenIn(d)})
          /\ Len(ElementOf(i).members) = Cardinality({CanonicalDecl(x) : x \in ChildrenIn(d)})

\* C24 witness: a namespace has been written whose members attribute lists
\* two children in the order opposite to that of their declaration.
C24_Witness ==
  \E i \in CompleteContainers :
    LET d == dispatched[i].entry.Decl
    IN \E a, b \in 1..Len(DeclsOf(d)) :
         /\ a < b
         /\ ~IgnoredMember(DeclsOf(d)[a]) /\ ~IgnoredMember(DeclsOf(d)[b])
         /\ DeclNodes[CanonicalDecl(DeclsOf(d)[a])].Index
              > DeclNodes[CanonicalDecl(DeclsOf(d)[b])].Index
         /\ Len(ElementOf(i).members) = 2

\* C24 second witness: the translation unit has been written with a
\* members attribute that lists once a namespace and a class that are each
\* declared twice in it.
C24_WitnessTwice ==
  \E i \in CompleteContainers :
    /\ dispatched[i].entry.Decl = "TU"
    /\ Cardinality(ChildrenIn("TU")) = Len(ElementOf(i).members) + 2

\* The declarations whose context is a declaration.
WithContext == {d \in Decls : ContextIsDecl(DeclContextOf(d))}

\* The calls of the history that asked for no completion of a declaration:
\* the context references.
ContextCalls ==
  {j \in AddCalls : calls[j].entry.Kind = "KindDecl" /\ ~calls[j].complete}

\* C25: in every state, the context reference of a declaration whose
\* context is a declaration returns the index of the context's node and
\* prints it; if the context was registered nothing changes, and if not its
\* node is created incomplete and is appended to the queue only when
\* RequireComplete is false; in no case does a node become complete.  In
\* the history no context reference pushed while RequireComplete held or
\* upgraded, and a context that was complete stayed complete.  The
\* translation unit, whose context is no declaration, is written without a
\* context attribute, and the access attribute goes with a context that is
\* a record.
C25_ContextRegistersIncomplete ==
  /\ \A d \in WithContext :
       LET e == QueueEntry("KindDecl", CanonicalDecl(DeclContextOf(d)))
           s == GetContextIdRef(Visitor, DeclContextOf(d))
           p == PrintContextAttribute(Open(Visitor, "Typedef"), d)
       IN /\ s.ret # 0 /\ s.ret = Deref(s, e).Index
          /\ p.OS[Len(p.OS)].context = s.ret
          /\ (p.OS[Len(p.OS)].access # "") <=> IsRecord(DeclContextOf(d))
          /\ e \in Registered =>
               SameVisitor(s) /\ Deref(s, e) = Deref(Visitor, e)
          /\ e \notin Registered =>
               /\ Deref(s, e) = [Index |-> NodeCount + 1, Complete |-> FALSE]
               /\ s.Queue = IF RequireComplete THEN Queue ELSE Append(Queue, e)
          /\ \A x \in Registered : Deref(s, x).Complete = Deref(Visitor, x).Complete
          /\ s.FileNodes = FileNodes /\ s.FileQueue = FileQueue
  /\ \A j \in ContextCalls :
       /\ calls[j].branch \in {"new", "seen"}
       /\ calls[j].require => ~calls[j].pushed
       /\ IsDeclContext(calls[j].entry.Decl)
  /\ \A i \in DeclDispatches :
       LET d == dispatched[i].entry.Decl
       IN /\ ~ContextIsDecl(DeclContextOf(d)) =>
               (d = "TU" /\ ElementOf(i).context = 0 /\ ElementOf(i).access = "")
          /\ (ElementOf(i).context # 0) =>
               /\ ContextIsDecl(DeclContextOf(d))
               /\ ElementOf(i).context =
                    DeclNodes[CanonicalDecl(DeclContextOf(d))].Index
               /\ (ElementOf(i).access # "") <=> IsRecord(DeclContextOf(d))

\* C25 witness: in the first step a context reference created a node that
\* was left off the queue, another found a complete node, which is still
\* complete, and a typedef of a class was written with its access; the
\* translation unit was written in the second step without a context.
C25_Witness ==
  /\ pc = "done"
  /\ \E j \in ContextCalls :
       calls[j].branch = "new" /\ calls[j].require /\ ~calls[j].pushed
  /\ \E j \in ContextCalls :
       /\ calls[j].branch = "seen" /\ calls[j].require
       /\ Deref(Visitor, calls[j].entry).Complete
  /\ \E i \in DeclDispatches :
       ElementOf(i).access = "private" /\ ElementOf(i).context # 0
  /\ \E i \in DeclDispatches :
       dispatched[i].entry.Decl = "TU" /\ ~dispatched[i].require

\* The registered namespaces and translation unit.
Containers ==
  {d \in DOMAIN DeclNodes : DeclKind(d) \in {"Namespace", "TranslationUnit"}}

\* The dispatches of a namespace or of the translation unit.
ContainerDispatches ==
  {i \in DeclDispatches :
     DeclKind(dispatched[i].entry.Decl) \in {"Namespace", "TranslationUnit"}}

\* C26: every dispatch of a namespace or of the translation unit writes one
\* element with the tag Namespace, and the element has a members attribute
\* only if the node was complete when it was dispatched.  In every state,
\* writing a registered namespace or the translation unit gives a Namespace
\* element with the node's index; when the node is incomplete the element
\* has no members attribute, no AddDumpNode call asks for completion, every
\* member, in any declaration of the container, keeps its node or stays
\* unregistered, and nothing is appended to the queue but, possibly, the
\* container's own context.
C26_NamespaceElement ==
  /\ \A i \in ContainerDispatches :
       /\ Written(i) = 1
       /\ ElementOf(i).tag = "Namespace"
       /\ ElementOf(i).id = DeclNodes[dispatched[i].entry.Decl].Index
       /\ (ElementOf(i).members # <<>>) => dispatched[i].Complete
  /\ \A d \in Containers :
       LET e == QueueEntry("KindDecl", d)
           s == OutputDecl(Visitor, d, e)
           el == s.OS[Len(s.OS)]
       IN /\ Len(s.OS) = Len(OS) + 1
          /\ el.tag = "Namespace" /\ el.id = DeclNodes[d].Index
          /\ (d = "TU") <=> (el.name = <<":", ":">>)
          /\ (el.members # <<>>) => DeclNodes[d].Complete
          /\ ~DeclNodes[d].Complete =>
               /\ \A x \in ChildrenOf(d) :
                    LET c == CanonicalDecl(x)
                    IN /\ (c \in DOMAIN s.DeclNodes) <=> (c \in DOMAIN DeclNodes)
                       /\ c \in DOMAIN DeclNodes => s.DeclNodes[c] = DeclNodes[c]
                       /\ \A q \in 1..Len(s.Queue) :
                            q > Len(Queue) => s.Queue[q] # QueueEntry("KindDecl", c)
               /\ SubSeq(s.Queue, 1, Len(Queue)) = Queue
               /\ Len(s.Queue) <= Len(Queue) + 1
               /\ s.TypeNodes = TypeNodes
               /\ \A j \in 1..Len(s.calls) : j > Len(calls) => ~s.calls[j].complete

\* C26 witness: a dump has ended that wrote a namespace complete with its
\* members attribute, a namespace that has members as a stub without one,
\* and the translation unit as a stub under the name "::".
C26_Witness ==
  /\ pc = "done"
  /\ \E i \in ContainerDispatches :
       /\ dispatched[i].Complete
       /\ DeclKind(dispatched[i].entry.Decl) = "Namespace"
       /\ ElementOf(i).members # <<>>
  /\ \E i \in ContainerDispatches :
       /\ ~dispatched[i].Complete
       /\ DeclKind(dispatched[i].entry.Decl) = "Namespace"
       /\ ChildrenOf(dispatched[i].entry.Decl) # {}
       /\ ElementOf(i).tag = "Namespace" /\ ElementOf(i).members = <<>>
  /\ \E i \in ContainerDispatches :
       /\ ~dispatched[i].Complete
       /\ dispatched[i].entry.Decl = "TU"
       /\ ElementOf(i).tag = "Namespace" /\ ElementOf(i).name = <<":", ":">>
       /\ ElementOf(i).members = <<>>

\* The source files the declarations are located in.
SourceFiles == {FileOf(d) : d \in Decls} \ {NullFile}

\* Every identity a node can be registered for.
AllEntries ==
  {QueueEntry("KindDecl", CanonicalDecl(d)) : d \in Decls}
    \cup {QueueEntry("KindType", t) : t \in QualTypes}

\* Method result s leaves the counter, the registries and the queue of the
\* nodes, or those of the files, as they are.
SameNodes(s) ==
  /\ s.NodeCount = NodeCount
  /\ s.DeclNodes = DeclNodes /\ s.TypeNodes = TypeNodes
  /\ s.Queue = Queue
SameFiles(s) ==
  /\ s.FileCount = FileCount /\ s.FileNodes = FileNodes
  /\ s.FileQueue = FileQueue

\* C27: the file indices in use are 1..FileCount, one per registered file,
\* and until the file queue is drained it holds each registered file once,
\* in index order.  In every state AddDumpFile for a file not yet
\* registered returns FileCount + 1, stores it, makes it the FileCount and
\* appends the file to the file queue; for a registered file it returns the
\* stored index and changes nothing, as does a second call after a first;
\* in both cases NodeCount, the node registries and the node queue are
\* unchanged.  AddDumpNode for any identity, asking for completion or not,
\* leaves FileCount, the file registry and the file queue unchanged.  A
\* location attribute carries the index of the declaration's file.
C27_FileRegistration ==
  /\ DOMAIN FileNodes \subseteq SourceFiles
  /\ {FileNodes[f] : f \in DOMAIN FileNodes} = 1..FileCount
  /\ Cardinality(DOMAIN FileNodes) = FileCount
  /\ pc \in {"start", "complete", "incomplete"} =>
       /\ Len(FileQueue) = FileCount
       /\ \A k \in 1..Len(FileQueue) : FileNodes[FileQueue[k]] = k
  /\ \A f \in SourceFiles :
       LET s == AddDumpFile(Visitor, f)
           s2 == AddDumpFile(s, f)
       IN /\ SameNodes(s) /\ s.OS = OS
          /\ f \notin DOMAIN FileNodes =>
               /\ s.ret = FileCount + 1 /\ s.FileCount = FileCount + 1
               /\ s.FileNodes = (f :> FileCount + 1) @@ FileNodes
               /\ s.FileQueue = Append(FileQueue, f)
          /\ f \in DOMAIN FileNodes =>
               s.ret = FileNodes[f] /\ SameFiles(s)
          /\ s2 = s
  /\ \A e \in AllEntries : \A c \in BOOLEAN :
       SameFiles(AddDumpNodeImpl(Visitor, e.Kind, KeyOf(e), c))
  /\ \A i \in DeclDispatches :
       LET d == dispatched[i].entry.Decl
       IN (Written(i) = 1 /\ ElementOf(i).file # 0) =>
            /\ FileOf(d) \in DOMAIN FileNodes
            /\ ElementOf(i).file = FileNodes[FileOf(d)]
            /\ ElementOf(i).line = LineOf(d)

\* C27 witness: the file queue has not been drained; two files are
\* registered, with indices 1 and 2, and are on the file queue in that
\* order; the second of them has been referenced by two elements, and
\* nodes were registered after the first file.
C27_Witness ==
  /\ pc = "incomplete"
  /\ FileCount = 2 /\ Len(FileQueue) = 2
  /\ FileNodes[FileQueue[1]] = 1 /\ FileNodes[FileQueue[2]] = 2
  /\ \E i, j \in NodeElements :
       i # j /\ OS[i].file = 2 /\ OS[j].file = 2
  /\ \E i \in NodeElements : OS[i].file = 1 /\ OS[i].id < NodeCount

\* C28: every entry on the queue belongs to a node whose Complete flag
\* equals RequireComplete, and every step that takes an entry from the
\* queue takes one whose node is complete while RequireComplete holds and
\* incomplete once it is cleared; so every dispatch of the first step found
\* its node complete and every dispatch of the second found it incomplete,
\* declarations and types alike, and the flag read at the dispatch is the
\* flag the node still has.  A namespace or translation unit element of the
\* second step has no members attribute, and no typedef is written in the
\* second step.
C28_PhaseMatchesComplete ==
  /\ [](\A k \in 1..Len(Queue) :
          Deref(Visitor, Queue[k]).Complete = RequireComplete)
  /\ [][ Len(dispatched') = Len(dispatched) + 1 =>
           /\ Queue # <<>>
           /\ dispatched'[Len(dispatched')].entry = Head(Queue)
           /\ dispatched'[Len(dispatched')].require = RequireComplete
           /\ dispatched'[Len(dispatched')].Complete = RequireComplete
           /\ Deref(Visitor, Head(Queue)).Complete = RequireComplete ]_vars
  /\ [](\A i \in 1..Len(dispatched) :
          /\ dispatched[i].Complete = dispatched[i].require
          /\ Deref(Visitor, dispatched[i].entry).Complete = dispatched[i].Complete
          /\ (~dispatched[i].require /\ Written(i) = 1) =>
               /\ ElementOf(i).tag # "Typedef"
               /\ ElementOf(i).members = <<>>)
  /\ [](RequireComplete <=> pc \in {"start", "complete"})

\* C28 witness: a dump has ended in which a declaration and a type were
\* dispatched complete in the first step, one of the declarations after an
\* upgrade, and a declaration was dispatched incomplete in the second.
C28_Witness ==
  /\ pc = "done"
  /\ \E i \in DeclDispatches :
       /\ dispatched[i].require /\ dispatched[i].Complete
       /\ \E j \in AddCalls :
            calls[j].branch = "upgrade" /\ calls[j].entry = dispatched[i].entry
  /\ \E i \in 1..Len(dispatched) :
       /\ dispatched[i].entry.Kind = "KindType"
       /\ dispatched[i].require /\ dispatched[i].Complete
  /\ \E i \in DeclDispatches :
       ~dispatched[i].require /\ ~dispatched[i].Complete

====
